---- MODULE Spec2Model ----
(***************************************************************************)
(* A model of the evaluation and similarity-retrieval core of the CoT      *)
(* evaluation harness: VectorDatabase (src/src/vector_db.py), Evaluator    *)
(* (src/src/evaluation.py), run_evaluation (src/src/main.py) and           *)
(* SQLiteBackup (src/src/sqlite_backup.py).                                *)
(*                                                                         *)
(* Each component has its own variables and its own specification; a       *)
(* specification leaves the other components' variables at their initial   *)
(* values.                                                                 *)
(***************************************************************************)
EXTENDS Integers, Sequences, FiniteSets, TLC

VARIABLES
    \* ---- VectorDatabase, one thread (vector_db.py) ----
    index,          \* self.index: the vectors of the FAISS flat index, in position order
    metadata,       \* self.metadata: the list of metadata records
    indexFile,      \* faiss_index.bin on disk
    metadataFile,   \* metadata.json on disk
    vret,           \* what the last VectorDatabase call did and returned
    addLog,         \* the successful add_question calls since the database was last empty
    allOk,          \* no add_question call has raised since the database was last empty
    faults,         \* how many calls have met a failing collaborator or a failing write
    \* ---- VectorDatabase.add_question, several threads ----
    addThr,         \* per thread: its place in add_question and its locals
    \* ---- Evaluator and run_evaluation (evaluation.py, main.py) ----
    results,        \* Evaluator.results: per strategy, whether the key exists and its list
    numThreads,     \* run_evaluation's num_threads
    apiFail,        \* the tasks whose model call fails after its retries
    task,           \* per task: its place in process_question_strategy and its outcome
    runPc,          \* "running" until run_evaluation has returned
    \* ---- VectorDatabase.get_similar_questions ----
    sret,           \* the last get_similar_questions call: arguments, search results, pairs
    \* ---- Evaluator.save_results (evaluation.py) ----
    resultFile,     \* the result file on disk
    saveBefore,     \* the file and self.results as the last save_results call found them
    \* ---- SQLiteBackup (sqlite_backup.py) ----
    evalRows,       \* table evaluation_results, in insertion order
    sessionRows,    \* table sessions: per session id, whether a row exists and its totals
    metricRows,     \* table overall_metrics: the (session_id, strategy) keys that hold a row
    bret,           \* the last SQLiteBackup call and its arguments
    rowsBefore,     \* table evaluation_results as the last call found it
    backupCalls,    \* how many SQLiteBackup calls were made
    \* ---- Evaluator.calculate_overall_metrics ----
    mret,           \* the last calculate_overall_metrics call and what it returned
    \* ---- evaluate_response (models.py) within Evaluator.evaluate_answer ----
    jret,           \* the last evaluate_answer call: the judge's outputs and the outcome
    \* ---- run_evaluation's task list (main.py) ----
    plan,           \* the arguments of the last run_evaluation call and its tasks
    \* ---- run_evaluation with log_only (main.py) ----
    logOnly,        \* the run's log_only argument
    logged,         \* the tasks whose conversation was logged
    judged,         \* the tasks for which evaluate_answer called the judge model
    \* ---- ConversationLogger (conversation_logger.py) ----
    convLogger,     \* the run's ConversationLogger: session_id, result_prefix, sqlite_backup
    \* ---- persistence calls and their write failures ----
    pret,           \* the last persistence call: whether its write failed, whether it raised
    \* ---- get_embedding failures in VectorDatabase calls ----
    eret,           \* the last add_question or search call: whether get_embedding raised,
                    \* whether the call raised to its caller
    \* ---- process_question_strategy's handling of process_response (main.py) ----
    presp,          \* the last task: what process_response did, the response used, the outcome
    \* ---- VectorStore (vectorization/vector_store.py) ----
    vstore,         \* the VectorStore: its FAISS index and its metadata list
    vsret,          \* the last VectorStore.search call: arguments and the list returned
    \* ---- FewShotCoT shared by the tasks of a worker pool (strategies/few_shot.py) ----
    lastSimilar,    \* the strategy instance's _last_similar_questions attribute
    fsThr,          \* per worker: its place in process_question_strategy and its locals
    \* ---- BatchEvaluator.evaluate_logs (batch_evaluation.py) ----
    logFiles,       \* the conversation log files: strategy, session id, evaluated flag
    batchEval       \* whether the logger has a backup, the evaluate_logs calls made, and per
                    \* log the judge calls made and the records added to the aggregator

vdbVars == <<index, metadata, indexFile, metadataFile, vret, addLog, allOk, faults, sret>>
concVars == <<addThr>>
evalVars == <<results, numThreads, apiFail, task, runPc>>
saveVars == <<resultFile, saveBefore>>
backupVars == <<evalRows, sessionRows, metricRows, bret, rowsBefore, backupCalls>>
otherVars == <<mret, jret, plan, logOnly, logged, judged>>
ctxVars == <<convLogger, pret, eret, presp, vstore, vsret, lastSimilar, fsThr,
            logFiles, batchEval>>
vars == <<index, metadata, indexFile, metadataFile, vret, addLog, allOk, faults, sret, addThr,
          results, numThreads, apiFail, task, runPc, resultFile, saveBefore,
          evalRows, sessionRows, metricRows, bret, rowsBefore, backupCalls, mret, jret, plan, logOnly, logged, judged,
          convLogger, pret, eret, presp, vstore, vsret, lastSimilar, fsThr,
          logFiles, batchEval>>

Min(a, b) == IF a <= b THEN a ELSE b

Range(s) == {s[i] : i \in DOMAIN s}

(***************************************************************************)
(* Bounds of the model.                                                    *)
(***************************************************************************)
MaxRecords == 2     \* add_question calls are made while the index holds fewer vectors
MaxK == 3           \* search is called with k in 0..MaxK
MaxFaults == 1      \* at most this many calls meet a failing embedding call or file write
MaxThreads == 2     \* run_evaluation is called with num_threads in 1..MaxThreads
MaxListLen == 2     \* evaluate_answer is called while a strategy's list is shorter
MaxBackupCalls == 2 \* at most this many SQLiteBackup calls are made

(***************************************************************************)
(* The embedding collaborator and the FAISS flat L2 index.                 *)
(***************************************************************************)
Texts == {"2+2=?", "3+3=?", "capital of France?"}

\* models.get_embedding: a fixed vector per text (one coordinate is enough to
\* order the texts by distance).
Embed(t) ==
    CASE t = "2+2=?" -> 0
      [] t = "3+3=?" -> 1
      [] OTHER -> 4

\* The answer a dataset question carries in the metadata its caller passes.
AnswerOf(t) ==
    CASE t = "2+2=?" -> "4"
      [] t = "3+3=?" -> "6"
      [] OTHER -> "Paris"

\* IndexFlatL2's metric: the squared Euclidean distance.
L2(a, b) == (a - b) * (a - b)

\* The distance FAISS reports in a result slot it could not fill (label -1):
\* larger than every real distance.
UnfilledDistance == L2(0, 4) + 1

\* faiss IndexFlatL2.search(q, k): the labels (0-based positions) of the k
\* nearest vectors, closest first; ties are in no particular order; slots
\* beyond the number of stored vectors hold label -1.
FaissSearch(idx, qv, k) ==
    LET n == Len(idx)
        m == Min(k, n)
        D(p) == L2(idx[p + 1], qv)
        Hits == {s \in [1..m -> 0..(n - 1)] :
                    /\ \A i, j \in 1..m : i < j => s[i] # s[j] /\ D(s[i]) <= D(s[j])
                    /\ \A p \in 0..(n - 1) :
                          (\A i \in 1..m : s[i] # p) =>
                              \A i \in 1..m : D(s[i]) <= D(p)}
    IN {[i \in 1..k |-> IF i <= m
                           THEN [label |-> s[i], distance |-> D(s[i])]
                           ELSE [label |-> -1, distance |-> UnfilledDistance]] :
           s \in Hits}

\* Python's list[idx] for idx in -len..len-1.
PyItem(lst, idx) == IF idx < 0 THEN lst[Len(lst) + idx + 1] ELSE lst[idx + 1]

(***************************************************************************)
(* VectorDatabase                                                          *)
(***************************************************************************)
Missing == [st |-> "missing", data |-> <<>>]
Corrupt == [st |-> "corrupt", data |-> <<>>]
Stored(d) == [st |-> "ok", data |-> d]

NoCall == [op |-> "none", raised |-> FALSE, val |-> -1, q |-> "", k |-> 0, res |-> <<>>]

\* add_question lines 94-96: the record appended to self.metadata.
MetaRecord(question_id, question) ==
    [id |-> question_id, question |-> question, answer |-> AnswerOf(question)]

\* add_question line 94: question_id = len(self.metadata)
NextQuestionIdOffByOne(md) == Len(md) + 1

NextQuestionId(md) == Len(md)

\* _create_new_index: an empty metadata list and an empty flat index.
CreateNewIndex ==
    /\ metadata' = <<>>
    /\ index' = <<>>

\* _load_or_create_index, run by the constructor.
LoadOrCreateIndex ==
    IF indexFile.st # "missing" /\ metadataFile.st # "missing"
    THEN IF indexFile.st = "ok" /\ metadataFile.st = "ok"
         THEN /\ index' = indexFile.data
              /\ metadata' = metadataFile.data
         ELSE CreateNewIndex
    ELSE CreateNewIndex

\* A new VectorDatabase object on the same directory (a new process).
Reload ==
    /\ LoadOrCreateIndex
    /\ vret' = [NoCall EXCEPT !.op = "load"]
    /\ IF index' = <<>> /\ metadata' = <<>>
       THEN addLog' = <<>> /\ allOk' = TRUE
       ELSE UNCHANGED <<addLog, allOk>>
    /\ UNCHANGED <<indexFile, metadataFile, faults>>

\* _save: write the index file, then the metadata file. The outcomes:
\*   ok               both files written
\*   index_fail       faiss.write_index raises; the index file is as before or broken
\*   meta_open_fail   the index file is written, opening metadata.json raises
\*   meta_dump_fail   the index file is written, metadata.json is truncated and json.dump raises
SaveOutcomes == {"ok", "index_fail", "meta_open_fail", "meta_dump_fail"}

Save(outcome, idx, md) ==
    CASE outcome = "ok" ->
            /\ indexFile' = Stored(idx)
            /\ metadataFile' = Stored(md)
      [] outcome = "index_fail" ->
            /\ indexFile' \in {indexFile, Corrupt}
            /\ metadataFile' = metadataFile
      [] outcome = "meta_open_fail" ->
            /\ indexFile' = Stored(idx)
            /\ metadataFile' = metadataFile
      [] OTHER ->
            /\ indexFile' = Stored(idx)
            /\ metadataFile' = Corrupt

\* add_question(question, metadata) whose get_embedding call raises.
AddQuestionEmbedFails ==
    /\ Len(index) < MaxRecords
    /\ faults < MaxFaults
    /\ faults' = faults + 1
    /\ \E question \in Texts :
          vret' = [NoCall EXCEPT !.op = "add", !.raised = TRUE, !.q = question]
    /\ allOk' = FALSE
    /\ addLog' = <<>>
    /\ UNCHANGED <<index, metadata, indexFile, metadataFile>>

\* add_question lines 89-103 once get_embedding returned, appending record.
AddQuestionWith(question, record, outcome) ==
    /\ outcome # "ok" => faults < MaxFaults
    /\ faults' = IF outcome = "ok" THEN faults ELSE faults + 1
    /\ index' = Append(index, Embed(question))
    /\ metadata' = Append(metadata, record)
    /\ Save(outcome, index', metadata')
    /\ IF outcome = "ok"
       THEN /\ vret' = [NoCall EXCEPT !.op = "add", !.val = record.id, !.q = question]
            /\ allOk' = allOk
            /\ addLog' = IF allOk
                         THEN Append(addLog, [text |-> question, ret |-> record.id])
                         ELSE <<>>
       ELSE /\ vret' = [NoCall EXCEPT !.op = "add", !.raised = TRUE, !.q = question]
            /\ allOk' = FALSE
            /\ addLog' = <<>>

\* add_question(question, metadata) whose get_embedding call returns; the
\* metadata passed carries the question's answer (main.py 74-75).
AddQuestion ==
    /\ Len(index) < MaxRecords
    /\ \E question \in Texts, outcome \in SaveOutcomes :
          AddQuestionWith(question, MetaRecord(NextQuestionId(metadata), question), outcome)

\* The record add_question stores when the metadata passed is an empty dict.
BareRecord(question_id, question) == [id |-> question_id, question |-> question]

\* add_question(question, metadata with the answer) whose _save succeeds.
AddQuestionSaved ==
    /\ Len(index) < MaxRecords
    /\ \E question \in Texts :
          AddQuestionWith(question, MetaRecord(NextQuestionId(metadata), question), "ok")

\* add_question(question, {}) whose _save succeeds: the record has no answer
\* field.
AddQuestionBare ==
    /\ Len(index) < MaxRecords
    /\ \E question \in Texts :
          AddQuestionWith(question, BareRecord(NextQuestionId(metadata), question), "ok")

\* search lines 128-143, after the query was embedded.
SearchResults(idx, md, query, k0) ==
    LET k == Min(k0, Len(md)) IN
    IF k = 0 THEN {<<>>}
    ELSE LET Keep(h) == h.label < Len(md)
             \* self.metadata[idx].copy() with result['distance'] set
             Result(h) == ("distance" :> h.distance) @@ PyItem(md, h.label)
             Collect(hits) == LET kept == SelectSeq(hits, Keep)
                              IN [i \in 1..Len(kept) |-> Result(kept[i])]
         IN {Collect(hits) : hits \in FaissSearch(idx, Embed(query), k)}

\* search(query, k): an embedding failure is caught and an empty list returned.
Search ==
    \E query \in Texts, k \in 0..MaxK :
       /\ \/ /\ \E res \in SearchResults(index, metadata, query, k) :
                   vret' = [NoCall EXCEPT !.op = "search", !.q = query, !.k = k, !.res = res]
             /\ faults' = faults
          \/ /\ faults < MaxFaults
             /\ faults' = faults + 1
             /\ vret' = [NoCall EXCEPT !.op = "search", !.raised = TRUE, !.q = query, !.k = k]
       /\ UNCHANGED <<index, metadata, indexFile, metadataFile, addLog, allOk>>

\* clear()
Clear ==
    /\ CreateNewIndex
    /\ indexFile' = Missing
    /\ metadataFile' = Missing
    /\ vret' = [NoCall EXCEPT !.op = "clear"]
    /\ addLog' = <<>>
    /\ allOk' = TRUE
    /\ UNCHANGED faults

NoSimilar == [op |-> "none", query |-> "", k |-> 0, exclude |-> FALSE,
              found |-> <<>>, pairs |-> <<>>]

\* The threshold of line 213, in hundredths: distance < 0.05.
NearExactHundredths == 5

NearExactAlways(distance) == TRUE

NearExact(distance) == distance * 100 < NearExactHundredths

\* get_similar_questions line 207
ActualK(k, exclude_exact_match) == IF exclude_exact_match THEN k + 1 ELSE k

\* get_similar_questions lines 211-218 applied to the list search returned.
Shortlist(found, k, exclude_exact_match) ==
    LET rest == IF exclude_exact_match /\ found # <<>> /\ NearExact(found[1].distance)
                THEN Tail(found)
                ELSE found
    IN SubSeq(rest, 1, Min(k, Len(rest)))

\* get_similar_questions line 220
Pairs(shortlist) ==
    LET Whole(r) == "question" \in DOMAIN r /\ "answer" \in DOMAIN r
        kept == SelectSeq(shortlist, Whole)
    IN [i \in 1..Len(kept) |-> <<kept[i].question, kept[i].answer>>]

\* What get_similar_questions returns when its search call returned found.
SimilarReturn(query, k, exclude_exact_match, found) ==
    [op |-> "get_similar_questions", query |-> query, k |-> k,
     exclude |-> exclude_exact_match, found |-> found,
     pairs |-> Pairs(Shortlist(found, k, exclude_exact_match))]

\* get_similar_questions(query, k, exclude_exact_match) whose search call
\* embeds the query.
GetSimilarQuestions ==
    \E query \in Texts, k \in 0..MaxK, exclude_exact_match \in BOOLEAN :
       \E res \in SearchResults(index, metadata, query, ActualK(k, exclude_exact_match)) :
          /\ vret' = [NoCall EXCEPT !.op = "search", !.q = query,
                                    !.k = ActualK(k, exclude_exact_match), !.res = res]
          /\ sret' = SimilarReturn(query, k, exclude_exact_match, res)
          /\ UNCHANGED <<index, metadata, indexFile, metadataFile, addLog, allOk, faults>>

\* get_similar_questions(query, k, exclude_exact_match) whose search call
\* fails to embed the query, catches the exception and returns an empty list.
GetSimilarQuestionsEmbedFails ==
    \E query \in Texts, k \in 0..MaxK, exclude_exact_match \in BOOLEAN :
       /\ vret' = [NoCall EXCEPT !.op = "search", !.raised = TRUE, !.q = query,
                                 !.k = ActualK(k, exclude_exact_match)]
       /\ sret' = SimilarReturn(query, k, exclude_exact_match, <<>>)
       /\ UNCHANGED <<index, metadata, indexFile, metadataFile, addLog, allOk, faults>>

VdbInit ==
    /\ index = <<>>
    /\ metadata = <<>>
    /\ indexFile = Missing
    /\ metadataFile = Missing
    /\ vret = NoCall
    /\ addLog = <<>>
    /\ allOk = TRUE
    /\ faults = 0
    /\ sret = NoSimilar

(***************************************************************************)
(* add_question called from several threads on one VectorDatabase. The     *)
(* code takes no lock (lines 85-103), so threads interleave between its    *)
(* statements.                                                             *)
(***************************************************************************)
NumThreads == 2

Threads == 1..NumThreads

IdleThread == [pc |-> "idle", question |-> "", question_id |-> -1]

\* line 87: embedding = get_embedding(question)
ThrEmbed(t) ==
    /\ addThr[t].pc = "idle"
    /\ \E question \in Texts :
          addThr' = [addThr EXCEPT ![t] = [pc |-> "embedded", question |-> question,
                                          question_id |-> -1]]
    /\ UNCHANGED <<index, metadata, indexFile, metadataFile>>

\* lines 90-91: self.index.add(embedding_np)
ThrIndexAdd(t) ==
    /\ addThr[t].pc = "embedded"
    /\ index' = Append(index, Embed(addThr[t].question))
    /\ addThr' = [addThr EXCEPT ![t].pc = "indexed"]
    /\ UNCHANGED <<metadata, indexFile, metadataFile>>

\* line 94: question_id = len(self.metadata)
ThrReadLen(t) ==
    /\ addThr[t].pc = "indexed"
    /\ addThr' = [addThr EXCEPT ![t].pc = "numbered",
                                ![t].question_id = NextQuestionId(metadata)]
    /\ UNCHANGED <<index, metadata, indexFile, metadataFile>>

\* lines 95-97: self.metadata.append(metadata)
ThrAppend(t) ==
    /\ addThr[t].pc = "numbered"
    /\ metadata' = Append(metadata, MetaRecord(addThr[t].question_id, addThr[t].question))
    /\ addThr' = [addThr EXCEPT ![t].pc = "appended"]
    /\ UNCHANGED <<index, indexFile, metadataFile>>

\* lines 100-103: self._save(); return question_id
ThrSave(t) ==
    /\ addThr[t].pc = "appended"
    /\ Save("ok", index, metadata)
    /\ addThr' = [addThr EXCEPT ![t].pc = "returned"]
    /\ UNCHANGED <<index, metadata>>

(***************************************************************************)
(* Evaluator.evaluate_answer and run_evaluation                            *)
(***************************************************************************)
\* init_strategies: the strategy mapping, in its insertion order.
StrategyOrder == <<"baseline", "zero_shot">>

Strategies == Range(StrategyOrder)

\* The ids of the questions passed to run_evaluation, in list order.
QuestionIds == <<"q1", "q2">>

\* run_evaluation lines 338-342 and 370-373: the tasks, question-major.
TaskList ==
    [i \in 1..(Len(QuestionIds) * Len(StrategyOrder)) |->
        [question_id |-> QuestionIds[((i - 1) \div Len(StrategyOrder)) + 1],
         strategy_name |-> StrategyOrder[((i - 1) % Len(StrategyOrder)) + 1]]]

Tasks == DOMAIN TaskList

\* Evaluator.__init__ line 39: self.results = {}
NoResults == [s \in Strategies |-> [has |-> FALSE, list |-> <<>>]]

\* The judge model's accuracy score for a question's answer.
JudgeScore(question_id) == IF question_id = "q1" THEN 1 ELSE 0

\* evaluate_answer lines 77-101: the record of one evaluation.
EvalRecord(question_id, strategy_name) ==
    [question_id |-> question_id, strategy |-> strategy_name,
     score |-> JudgeScore(question_id)]

\* evaluate_answer line 125: self.results[strategy_name] = []
ResultsCreate(res, strategy_name) ==
    [res EXCEPT ![strategy_name] = [has |-> TRUE, list |-> <<>>]]

\* evaluate_answer line 127: self.results[strategy_name].append(eval_result)
ResultsAppend(res, strategy_name, rec) ==
    [res EXCEPT ![strategy_name].list = Append(@, rec)]

PendingTask == [pc |-> "pending", absent |-> FALSE, success |-> FALSE]

\* The tasks a worker is busy with.
Running == {i \in Tasks : task[i].pc \in {"evaluating", "checked", "ready"}}

\* A scheduler that starts the pending tasks in any order.
MayStartAnyOrder(i) ==
    /\ runPc = "running"
    /\ task[i].pc = "pending"

\* Whether task i is the next to start: in the loop of lines 338-358 when the
\* task before it has been reported; in the pool (lines 378-387) when a
\* worker is free and every earlier task was taken.
MayStart(i) ==
    /\ runPc = "running"
    /\ task[i].pc = "pending"
    /\ IF numThreads <= 1
       THEN \A j \in Tasks : j < i => task[j].pc = "reported"
       ELSE /\ \A j \in Tasks : j < i => task[j].pc # "pending"
            /\ Cardinality(Running) < numThreads

\* A failing model call that leaves its worker stuck.
TaskModelFailsStuck(i) ==
    /\ MayStart(i)
    /\ i \in apiFail
    /\ task' = [task EXCEPT ![i].pc = "stuck"]
    /\ UNCHANGED <<results, numThreads, apiFail, runPc>>

\* process_question_strategy lines 127-160 with a failing model call: the
\* exception is caught at lines 263-266 and the result returned with
\* success = False.
TaskModelFails(i) ==
    /\ MayStart(i)
    /\ i \in apiFail
    /\ task' = [task EXCEPT ![i].pc = "finished"]
    /\ UNCHANGED <<results, numThreads, apiFail, runPc>>

\* process_question_strategy lines 127-224 and evaluate_answer lines 71-121:
\* the model answers, the response is processed and the judge has scored it.
TaskModelAnswers(i) ==
    /\ MayStart(i)
    /\ i \notin apiFail
    /\ task' = [task EXCEPT ![i].pc = "evaluating"]
    /\ UNCHANGED <<results, numThreads, apiFail, runPc>>

\* evaluate_answer line 124: if strategy_name not in self.results
EvalCheck(i) ==
    /\ task[i].pc = "evaluating"
    /\ task' = [task EXCEPT ![i].pc = "checked",
                            ![i].absent = ~results[TaskList[i].strategy_name].has]
    /\ UNCHANGED <<results, numThreads, apiFail, runPc>>

\* evaluate_answer line 125
EvalCreate(i) ==
    /\ task[i].pc = "checked"
    /\ results' = IF task[i].absent
                  THEN ResultsCreate(results, TaskList[i].strategy_name)
                  ELSE results
    /\ task' = [task EXCEPT ![i].pc = "ready"]
    /\ UNCHANGED <<numThreads, apiFail, runPc>>

\* evaluate_answer lines 127-130 and process_question_strategy lines 226-268
EvalAppend(i) ==
    /\ task[i].pc = "ready"
    /\ results' = ResultsAppend(results, TaskList[i].strategy_name,
                                EvalRecord(TaskList[i].question_id, TaskList[i].strategy_name))
    /\ task' = [task EXCEPT ![i].pc = "finished", ![i].success = TRUE]
    /\ UNCHANGED <<numThreads, apiFail, runPc>>

\* run_evaluation lines 355-358 and 391-404: the task's result is reported as
\* completed or as failed.
Harvest(i) ==
    /\ runPc = "running"
    /\ task[i].pc = "finished"
    /\ task' = [task EXCEPT ![i].pc = "reported"]
    /\ UNCHANGED <<results, numThreads, apiFail, runPc>>

\* run_evaluation lines 410-427: every task was reported; the run returns.
RunReturns ==
    /\ runPc = "running"
    /\ \A i \in Tasks : task[i].pc = "reported"
    /\ runPc' = "returned"
    /\ UNCHANGED <<results, numThreads, apiFail, task>>

EvalIdle ==
    /\ results = NoResults
    /\ numThreads = 1
    /\ apiFail = {}
    /\ task = [i \in Tasks |-> PendingTask]
    /\ runPc = "running"

\* A call of run_evaluation with a fresh Evaluator.
EvalInit ==
    /\ results = NoResults
    /\ numThreads \in 1..MaxThreads
    /\ apiFail \in SUBSET Tasks
    /\ task = [i \in Tasks |-> PendingTask]
    /\ runPc = "running"

(***************************************************************************)
(* Evaluator.save_results                                                  *)
(***************************************************************************)
NoResultFile == [st |-> "missing", data |-> NoResults]

NoSave == [valid |-> FALSE, file |-> NoResultFile, mem |-> NoResults]

\* evaluate_answer lines 123-130 run by one thread.
EvaluateAnswer ==
    \E strategy_name \in Strategies, i \in DOMAIN QuestionIds :
       /\ Len(results[strategy_name].list) < MaxListLen
       /\ results' = ResultsAppend(IF results[strategy_name].has
                                   THEN results
                                   ELSE ResultsCreate(results, strategy_name),
                                   strategy_name,
                                   EvalRecord(QuestionIds[i], strategy_name))
       /\ saveBefore' = NoSave
       /\ UNCHANGED resultFile

\* A new process: Evaluator.__init__ line 39.
NewEvaluator ==
    /\ results' = NoResults
    /\ saveBefore' = NoSave
    /\ UNCHANGED resultFile

\* save_results lines 259-268 with the file's contents loaded: the merge
\* loop. A strategy present on both sides runs list.update(...), which
\* raises AttributeError; the handler of lines 269-270 then leaves
\* self.results as it was.
MergeOverwrites(existing, mem) == [ok |-> TRUE, merged |-> mem]

MergeResults(existing, mem) ==
    IF \E strategy \in Strategies : mem[strategy].has /\ existing[strategy].has
    THEN [ok |-> FALSE, merged |-> mem]
    ELSE [ok |-> TRUE,
          merged |-> [strategy \in Strategies |->
                         IF mem[strategy].has THEN mem[strategy] ELSE existing[strategy]]]

\* save_results
SaveResults ==
    LET m == MergeResults(resultFile.data, results) IN
    /\ results' = IF resultFile.st = "ok" /\ m.ok THEN m.merged ELSE results
    /\ resultFile' = [st |-> "ok", data |-> results']
    /\ saveBefore' = [valid |-> TRUE, file |-> resultFile, mem |-> results]

SaveIdle ==
    /\ resultFile = NoResultFile
    /\ saveBefore = NoSave

(***************************************************************************)
(* SQLiteBackup                                                            *)
(***************************************************************************)
Sessions == {"1700000000", "1700000001"}

\* dict.get('id', ''): records made by evaluate_answer have no 'id' key,
\* records in the format of get_session_results have one.
GetId(result) == IF "id" \in DOMAIN result THEN result.id ELSE ""

\* The records in get_session_results' format (lines 448-468).
ApiRecords == [id : Range(QuestionIds), score : {0, 1}]

\* The uniqueness key of table evaluation_results (line 57).
RowKey(row) == <<row.question_id, row.strategy, row.session_id>>

\* backup_evaluation_result lines 148-165: the row inserted.
EvalRow(result, strategy, session_id) ==
    [question_id |-> GetId(result), strategy |-> strategy, session_id |-> session_id,
     accuracy_score |-> result.score]

\* INSERT without REPLACE, ignoring the uniqueness key.
InsertAlways(rows, row) == Append(rows, row)

\* INSERT OR REPLACE (lines 141-147): rows with the new row's key are deleted,
\* then the row is inserted.
InsertOrReplace(rows, row) ==
    LET Other(r) == RowKey(r) # RowKey(row)
    IN Append(SelectSeq(rows, Other), row)

NoBackupCall == [op |-> "none", result |-> [score |-> 0], strategy |-> "", session_id |-> ""]

\* backup_evaluation_result(result, strategy, session_id)
BackupOne(result, strategy, session_id) ==
    /\ evalRows' = InsertOrReplace(evalRows, EvalRow(result, strategy, session_id))
    /\ bret' = [op |-> "backup_evaluation_result", result |-> result,
                strategy |-> strategy, session_id |-> session_id]
    /\ rowsBefore' = evalRows
    /\ UNCHANGED <<sessionRows, metricRows>>

\* A call of backup_evaluation_result with a record in either format.
BackupEvaluationResult ==
    /\ backupCalls < MaxBackupCalls
    /\ backupCalls' = backupCalls + 1
    /\ \E strategy \in Strategies, session_id \in Sessions :
          \/ \E result \in ApiRecords : BackupOne(result, strategy, session_id)
          \/ \E i \in DOMAIN QuestionIds :
                BackupOne(EvalRecord(QuestionIds[i], strategy), strategy, session_id)

\* backup_all_results lines 334-340: one upsert per record, strategy by
\* strategy, starting from table rows; the k-th strategy's first n records.
RECURSIVE UpsertList(_, _, _, _, _)
UpsertList(rows, res, strategy, session_id, n) ==
    IF n = 0 THEN rows
    ELSE InsertOrReplace(UpsertList(rows, res, strategy, session_id, n - 1),
                         EvalRow(res[strategy].list[n], strategy, session_id))

RECURSIVE UpsertStrategies(_, _, _, _)
UpsertStrategies(rows, res, session_id, k) ==
    IF k = 0 THEN rows
    ELSE LET strategy == StrategyOrder[k]
             before == UpsertStrategies(rows, res, session_id, k - 1)
         IN IF res[strategy].has
            THEN UpsertList(before, res, strategy, session_id, Len(res[strategy].list))
            ELSE before

\* The number of records in res.
RECURSIVE RecordCount(_, _)
RecordCount(res, k) ==
    IF k = 0 THEN 0
    ELSE RecordCount(res, k - 1) +
            (IF res[StrategyOrder[k]].has THEN Len(res[StrategyOrder[k]].list) ELSE 0)

\* backup_all_results line 343: 'overall_metrics' in results
HasOverallMetrics(res) == "overall_metrics" \in DOMAIN res

\* backup_all_results lines 343-345 and backup_overall_metrics: one
\* INSERT OR REPLACE under (session_id, strategy) per strategy of
\* results['overall_metrics'], when results has that key.
UpsertOverallMetrics(rows, res, session_id) ==
    IF HasOverallMetrics(res)
    THEN rows \cup {[session_id |-> session_id, strategy |-> strategy] :
                       strategy \in DOMAIN res["overall_metrics"]}
    ELSE rows

\* result_prefix: None or a prefix.
NoneValue == "None"
Prefixes == {NoneValue, "p"}

\* The clock readings stored in table sessions, named by the statement that
\* read the clock: ConversationLogger.__init__ line 48 before the run,
\* backup_all_results lines 331 and 353 after it.
TimeAtLoggerInit == "time at ConversationLogger.__init__"
TimeAtBackupStart == "time at backup_all_results entry"
TimeAtBackupEnd == "time at backup_all_results session upsert"

NoSessionRow ==
    [has |-> FALSE, result_prefix |-> NoneValue, start_time |-> NoneValue,
     end_time |-> NoneValue, total_questions |-> 0]

\* backup_session lines 298-312: INSERT OR REPLACE INTO sessions writes every
\* column of the row from the call's arguments; an argument left out takes
\* its default (result_prefix None, end_time None, total_questions 0).
SessionRow(result_prefix, start_time, end_time, total_questions) ==
    [has |-> TRUE, result_prefix |-> result_prefix, start_time |-> start_time,
     end_time |-> end_time, total_questions |-> total_questions]

\* backup_session as backup_all_results calls it (lines 348-355): no
\* result_prefix argument, start_time read at line 331.
SessionRowOfBackup(total_questions) ==
    SessionRow(NoneValue, TimeAtBackupStart, TimeAtBackupEnd, total_questions)

\* backup_all_results(evaluator.results, session_id): the evaluation rows
\* (lines 334-340), the overall-metric rows (lines 343-345), then the session
\* row (lines 348-355).
BackupAllResultsFor(session_id) ==
    /\ evalRows' = UpsertStrategies(evalRows, results, session_id, Len(StrategyOrder))
    /\ metricRows' = UpsertOverallMetrics(metricRows, results, session_id)
    /\ sessionRows' = [sessionRows EXCEPT ![session_id] =
                          SessionRowOfBackup(RecordCount(results, Len(StrategyOrder)))]
    /\ bret' = [NoBackupCall EXCEPT !.op = "backup_all_results",
                                    !.session_id = session_id]
    /\ rowsBefore' = evalRows

BackupAllResults ==
    /\ backupCalls < MaxBackupCalls
    /\ backupCalls' = backupCalls + 1
    /\ \E session_id \in Sessions :
          /\ BackupAllResultsFor(session_id)

\* get_session_results lines 433-469: the records of one strategy, one per
\* row of the session and strategy, in table order.
SessionRecords(rows, session_id, strategy) ==
    LET Mine(row) == row.session_id = session_id /\ row.strategy = strategy
        mine == SelectSeq(rows, Mine)
    IN [n \in DOMAIN mine |-> [id |-> mine[n].question_id, score |-> mine[n].accuracy_score]]

\* get_session_results(session_id): {} when the session has no row (lines
\* 413-415), else one key per strategy that has rows in the session (418-426).
GetSessionResults(rows, sessions, session_id) ==
    IF ~sessions[session_id].has
    THEN [strategy \in Strategies |-> [has |-> FALSE, list |-> <<>>]]
    ELSE [strategy \in Strategies |->
             LET list == SessionRecords(rows, session_id, strategy)
             IN [has |-> list # <<>>, list |-> list]]

\* SQLiteBackup.__init__ on a new database file.
BackupIdle ==
    /\ evalRows = <<>>
    /\ sessionRows = [session_id \in Sessions |-> NoSessionRow]
    /\ metricRows = {}
    /\ bret = NoBackupCall
    /\ rowsBefore = <<>>
    /\ backupCalls = 0

\* The question ids of a strategy's records after a run: each question at
\* most once, in task order.
RunLists == {<<>>, <<1>>, <<2>>, <<1, 2>>}

\* Evaluator.results after a run of run_evaluation.
RunResults ==
    {[strategy \in Strategies |->
         [has |-> f[strategy] # <<>>,
          list |-> [n \in DOMAIN f[strategy] |->
                       EvalRecord(QuestionIds[f[strategy][n]], strategy)]]] :
        f \in [Strategies -> RunLists]}

ConcIdle == addThr = [t \in Threads |-> IdleThread]

(***************************************************************************)
(* Evaluator.calculate_overall_metrics on results read by load_results     *)
(***************************************************************************)
MaxEvals == 2       \* a loaded strategy list holds at most this many records

\* The records a result file can hold that are not in evaluate_answer's
\* format: a value that is not a dict, a dict without 'metrics', with
\* 'metrics' null, with metrics lacking 'accuracy', with accuracy null, with
\* accuracy lacking 'score', with score null, with a score that is no number.
Shapes == {"not_a_dict", "no_metrics", "metrics_null", "no_accuracy",
           "accuracy_null", "no_score", "score_null", "score_text"}

MalformedRecord(shape) == [shape |-> shape]

\* The records of a loaded list: the two well-formed ones and the malformed.
LoadedRecords ==
    {EvalRecord(QuestionIds[i], "baseline") : i \in DOMAIN QuestionIds}
       \cup {MalformedRecord(shape) : shape \in Shapes}

\* load_results: self.results = json.load(f); the file holds a list for
\* 'baseline' and possibly one record for 'zero_shot'.
LoadedResults ==
    {[strategy \in Strategies |->
         IF strategy = "baseline" THEN [has |-> TRUE, list |-> lst]
         ELSE IF other THEN [has |-> TRUE, list |-> <<EvalRecord("q1", strategy)>>]
         ELSE [has |-> FALSE, list |-> <<>>]] :
        lst \in UNION {[1..n -> LoadedRecords] : n \in 0..MaxEvals}, other \in BOOLEAN}

\* calculate_overall_metrics lines 157-162 on one record: "raise" when the
\* test of line 157 raises (outside the try), "skip" when the record is
\* passed over or the exception is caught, "score" when float(score) is
\* appended.
AccuracyScan(e) ==
    IF "score" \in DOMAIN e THEN "score"
    ELSE IF e.shape = "metrics_null" THEN "raise"
    ELSE "skip"

Counted(e) == AccuracyScan(e) = "score"

\* accuracy_scores of lines 155-162, as <<sum, len>>.
RECURSIVE AccuracyScores(_, _)
AccuracyScores(evals, n) ==
    IF n = 0 THEN <<0, 0>>
    ELSE LET before == AccuracyScores(evals, n - 1)
         IN IF Counted(evals[n])
            THEN <<before[1] + evals[n].score, before[2] + 1>>
            ELSE before

\* strategy_metrics of lines 148-172; average_score is the quotient of the
\* pair <<sum, count>>.
StrategyMetrics(evals) ==
    LET scores == AccuracyScores(evals, Len(evals)) IN
    [total_questions |-> Len(evals),
     accuracy |-> IF scores[2] > 0
                  THEN [has |-> TRUE, average_score |-> scores, count |-> scores[2]]
                  ELSE [has |-> FALSE, average_score |-> <<0, 0>>, count |-> 0]]

NoMetrics == [has |-> FALSE, total_questions |-> 0,
              accuracy |-> [has |-> FALSE, average_score |-> <<0, 0>>, count |-> 0]]

NoMetricsCall == [op |-> "none", raised |-> FALSE,
                  overall_metrics |-> [strategy \in Strategies |-> NoMetrics]]

\* load_results()
LoadResults ==
    /\ results' \in LoadedResults
    /\ mret' = NoMetricsCall

\* calculate_overall_metrics()
CalculateOverallMetrics ==
    /\ IF \E strategy \in Strategies :
             /\ results[strategy].has
             /\ \E n \in DOMAIN results[strategy].list :
                   AccuracyScan(results[strategy].list[n]) = "raise"
       THEN mret' = [NoMetricsCall EXCEPT !.op = "calculate_overall_metrics",
                                          !.raised = TRUE]
       ELSE mret' = [op |-> "calculate_overall_metrics", raised |-> FALSE,
                     overall_metrics |->
                        [strategy \in Strategies |->
                            IF results[strategy].has
                            THEN [has |-> TRUE] @@ StrategyMetrics(results[strategy].list)
                            ELSE NoMetrics]]
    /\ UNCHANGED results

(***************************************************************************)
(* evaluate_response and the judge's part of Evaluator.evaluate_answer     *)
(***************************************************************************)
\* The numbers a judge model may put in "score".
JudgeNumbers == {0, 1, 7}

\* What the judge call produces: a JSON object with score and explanation,
\* the same inside a Markdown fence, an object without "score", an object
\* without "explanation", a JSON value that is no object, non-JSON text in
\* which "score": n can be found, other non-JSON text, or an exception after
\* generate_completion's retries.
JudgeOutputs ==
    [kind : {"object", "fenced", "text_with_score"}, score : JudgeNumbers]
       \cup [kind : {"object_no_score", "object_no_explanation", "not_object",
                     "text", "call_failed"},
             score : {0}]

\* evaluate_response lines 213-243: the value returned for a judge output.
\* dict tells whether it is a dict, diagnostic whether the explanation is one
\* of the function's own messages.
EvaluateResponse(out) ==
    CASE out.kind \in {"object", "fenced"} ->
            [dict |-> TRUE, has_score |-> TRUE, score |-> out.score,
             has_explanation |-> TRUE, diagnostic |-> FALSE]
      [] out.kind = "object_no_score" ->
            [dict |-> TRUE, has_score |-> FALSE, score |-> 0,
             has_explanation |-> TRUE, diagnostic |-> FALSE]
      [] out.kind = "object_no_explanation" ->
            [dict |-> TRUE, has_score |-> TRUE, score |-> 1,
             has_explanation |-> FALSE, diagnostic |-> FALSE]
      [] out.kind = "not_object" ->
            [dict |-> FALSE, has_score |-> FALSE, score |-> 0,
             has_explanation |-> FALSE, diagnostic |-> FALSE]
      [] out.kind = "text_with_score" ->
            [dict |-> TRUE, has_score |-> TRUE, score |-> out.score,
             has_explanation |-> TRUE, diagnostic |-> FALSE]
      [] OTHER ->
            [dict |-> TRUE, has_score |-> TRUE, score |-> 0,
             has_explanation |-> TRUE, diagnostic |-> TRUE]

\* evaluate_answer lines 102-103 and 117-118: the log lines index the judge's
\* result with ['score'] and ['explanation'].
LogRaises(result) == ~result.dict \/ ~result.has_score \/ ~result.has_explanation

NoJudgeCall == [op |-> "none", raised |-> FALSE, strategy |-> "", len |-> 0,
                accuracy |-> [kind |-> "none", score |-> 0],
                result |-> EvaluateResponse([kind |-> "text", score |-> 0])]

\* evaluate_answer(question, reference_answer, model_response, strategy_name,
\* question_id) with the judge's outputs for accuracy and, when the response
\* has reasoning, for reasoning quality.
EvaluateAnswerJudged ==
    \E i \in DOMAIN QuestionIds, has_reasoning \in BOOLEAN,
       accuracy \in JudgeOutputs, reasoning \in JudgeOutputs :
       LET strategy_name == StrategyOrder[1]
           accuracy_result == EvaluateResponse(accuracy)
           reasoning_result == EvaluateResponse(reasoning)
           raises == \/ LogRaises(accuracy_result)
                     \/ has_reasoning /\ LogRaises(reasoning_result)
           base == [EvalRecord(QuestionIds[i], strategy_name)
                       EXCEPT !.score = accuracy_result.score]
           eval_result == IF has_reasoning
                          THEN ("reasoning_score" :> reasoning_result.score) @@ base
                          ELSE base
       IN /\ ~has_reasoning => reasoning = accuracy
          /\ Len(results[strategy_name].list) < MaxListLen
          /\ jret' = [op |-> "evaluate_answer", raised |-> raises,
                      strategy |-> strategy_name,
                      len |-> Len(results[strategy_name].list),
                      accuracy |-> accuracy, result |-> accuracy_result]
          /\ results' = IF raises THEN results
                        ELSE ResultsAppend(IF results[strategy_name].has
                                           THEN results
                                           ELSE ResultsCreate(results, strategy_name),
                                           strategy_name, eval_result)

(***************************************************************************)
(* run_evaluation: the filters and the task list                           *)
(***************************************************************************)
MaxQuestionsArg == 3    \* max_questions is None or in 0..MaxQuestionsArg

\* strategy_filter and question_filter: None, or a list of names, some of
\* them unknown (argparse nargs="+" gives at least one name).
NoFilter == [given |-> FALSE, names |-> {}]

StrategyFilters ==
    {NoFilter} \cup {[given |-> TRUE, names |-> n] :
                        n \in (SUBSET (Strategies \cup {"no_such_strategy"})) \ {{}}}

QuestionFilters ==
    {NoFilter} \cup {[given |-> TRUE, names |-> n] :
                        n \in (SUBSET (Range(QuestionIds) \cup {"q9"})) \ {{}}}

\* max_questions: None or an integer.
MaxQuestionsArgs ==
    {[given |-> FALSE, m |-> 0]} \cup {[given |-> TRUE, m |-> m] : m \in 0..MaxQuestionsArg}

\* run_evaluation lines 302-305
FilteredStrategies(strategy_filter) ==
    IF strategy_filter.given
    THEN LET Named(k) == k \in strategy_filter.names IN SelectSeq(StrategyOrder, Named)
    ELSE StrategyOrder

\* run_evaluation lines 310-317; `if max_questions and ...` is false for
\* None and for 0.
FilteredQuestions(question_filter, max_questions) ==
    LET Named(q) == q \in question_filter.names
        filtered_questions == IF question_filter.given
                              THEN SelectSeq(QuestionIds, Named)
                              ELSE QuestionIds
    IN IF max_questions.given /\ max_questions.m # 0
          /\ max_questions.m < Len(filtered_questions)
       THEN SubSeq(filtered_questions, 1, max_questions.m)
       ELSE filtered_questions

\* run_evaluation lines 338-342 and 370-373: the tasks, question-major.
TasksOf(filtered_questions, filtered_strategies) ==
    [i \in 1..(Len(filtered_questions) * Len(filtered_strategies)) |->
        [question_id |-> filtered_questions[((i - 1) \div Len(filtered_strategies)) + 1],
         strategy_name |-> filtered_strategies[((i - 1) % Len(filtered_strategies)) + 1]]]

NoPlan == [op |-> "none", strategy_filter |-> NoFilter, question_filter |-> NoFilter,
           max_questions |-> [given |-> FALSE, m |-> 0], tasks |-> <<>>]

\* run_evaluation(questions, strategies, strategy_filter, question_filter,
\* max_questions): the tasks it goes through.
RunEvaluationTasks ==
    \E strategy_filter \in StrategyFilters, question_filter \in QuestionFilters,
       max_questions \in MaxQuestionsArgs :
       plan' = [op |-> "run_evaluation", strategy_filter |-> strategy_filter,
                question_filter |-> question_filter, max_questions |-> max_questions,
                tasks |-> TasksOf(FilteredQuestions(question_filter, max_questions),
                                  FilteredStrategies(strategy_filter))]

(***************************************************************************)
(* run_evaluation with log_only, conversation logging and the final backup *)
(***************************************************************************)
\* A task whose model call succeeds and which is evaluated whatever log_only
\* says.
TaskAnswersEvaluated(i) ==
    /\ MayStart(i)
    /\ i \notin apiFail
    /\ logged' = logged \cup {i}
    /\ judged' = judged \cup {i}
    /\ task' = [task EXCEPT ![i].pc = "evaluating"]
    /\ UNCHANGED <<results, numThreads, apiFail, runPc, logOnly>>

\* process_question_strategy lines 127-261 when the model call succeeds: the
\* conversation is logged (lines 200-211); unless log_only, evaluate_answer is
\* entered and the judge scores the answer (line 215); with log_only the task
\* is marked successful (lines 259-261).
TaskAnswersLogged(i) ==
    /\ MayStart(i)
    /\ i \notin apiFail
    /\ logged' = logged \cup {i}
    /\ IF logOnly
       THEN /\ task' = [task EXCEPT ![i].pc = "finished", ![i].success = TRUE]
            /\ judged' = judged
       ELSE /\ task' = [task EXCEPT ![i].pc = "evaluating"]
            /\ judged' = judged \cup {i}
    /\ UNCHANGED <<results, numThreads, apiFail, runPc, logOnly>>

\* run_evaluation lines 410-427: every task was reported; unless log_only the
\* results are backed up, then the run returns.
RunReturnsBackedUp ==
    /\ RunReturns
    /\ IF logOnly THEN UNCHANGED backupVars ELSE BackupAllResults
    /\ UNCHANGED <<logOnly, logged, judged>>

(***************************************************************************)
(* ConversationLogger                                                      *)
(***************************************************************************)
NoLogger == [has |-> FALSE, session_id |-> "", result_prefix |-> NoneValue]

\* ConversationLogger.__init__(result_prefix=..., sqlite_backup=...) lines
\* 36-51: the session id is the current time in seconds, and the session row
\* is created with the prefix and the start time.
NewConversationLogger ==
    /\ ~convLogger.has
    /\ \E session_id \in Sessions, result_prefix \in Prefixes :
          /\ convLogger' = [has |-> TRUE, session_id |-> session_id,
                            result_prefix |-> result_prefix]
          /\ sessionRows' = [sessionRows EXCEPT ![session_id] =
                                SessionRow(result_prefix, TimeAtLoggerInit, NoneValue, 0)]
    /\ UNCHANGED <<evalRows, metricRows, bret, rowsBefore, backupCalls, pret, eret, presp, vstore, vsret, lastSimilar, fsThr,
                 logFiles, batchEval>>

\* run_evaluation lines 415-424 at the end of the run: backup_all_results
\* under the logger's session id.
RunBackup ==
    /\ convLogger.has
    /\ backupCalls < MaxBackupCalls
    /\ backupCalls' = backupCalls + 1
    /\ BackupAllResultsFor(convLogger.session_id)
    /\ UNCHANGED <<convLogger, pret, eret, presp, vstore, vsret, lastSimilar, fsThr, logFiles, batchEval>>

(***************************************************************************)
(* A run with the conversation logger and the backup attached              *)
(***************************************************************************)
\* backup_conversation_log (sqlite_backup.py 186-214): the row of a log
\* entry. Before add_evaluation_metrics the entry has no evaluation_result
\* and accuracy.get('score', 0) is 0.
LogRow(i, session_id, accuracy_score) ==
    [question_id |-> TaskList[i].question_id, strategy |-> TaskList[i].strategy_name,
     session_id |-> session_id, accuracy_score |-> accuracy_score]

\* The model call of task i fails; nothing is logged.
TaskFailsUnlogged(i) ==
    /\ convLogger.has
    /\ TaskModelFails(i)
    /\ UNCHANGED <<logOnly, logged, judged, backupVars>>

\* log_conversation (main.py 200-211) writes the log file and backs the
\* entry up (conversation_logger.py 125-131); then evaluate_answer is entered.
TaskLogsRow(i) ==
    /\ convLogger.has
    /\ TaskAnswersLogged(i)
    /\ evalRows' = InsertOrReplace(evalRows, LogRow(i, convLogger.session_id, 0))
    /\ UNCHANGED <<sessionRows, metricRows, bret, rowsBefore, backupCalls>>

\* evaluate_answer appends the record, then add_evaluation_metrics (main.py
\* 229-254, conversation_logger.py 343-369) backs the entry up again with the
\* accuracy score; both run in the task's thread, one after the other.
EvalAppendMetrics(i) ==
    /\ EvalAppend(i)
    /\ evalRows' = InsertOrReplace(evalRows,
                      LogRow(i, convLogger.session_id, JudgeScore(TaskList[i].question_id)))
    /\ UNCHANGED <<sessionRows, metricRows, bret, rowsBefore, backupCalls>>

\* run_evaluation lines 410-427: the backup in bulk, then the run returns.
RunReturnsWithBackup ==
    /\ RunReturns
    /\ RunBackup

(***************************************************************************)
(* Write failures in the persistence calls                                 *)
(***************************************************************************)
MaxPersistCalls == 2    \* persistence calls in a behaviour

NoPersistCall == [op |-> "none", failed |-> FALSE, raised |-> FALSE, calls |-> 0]

\* The record of one more persistence call.
PersistCall(op, failed, raised) ==
    [op |-> op, failed |-> failed, raised |-> raised, calls |-> pret.calls + 1]

\* save_results whose write succeeds.
SaveResultsWritten ==
    /\ SaveResults
    /\ pret.calls < MaxPersistCalls
    /\ pret' = PersistCall("save_results", FALSE, FALSE)

\* save_results lines 273-274 failing: open(..., 'w') raises and the file is
\* as before, or json.dump raises and the file is left truncated. The merge
\* of lines 252-268 has run before; the handler of lines 277-278 logs the
\* error and the method returns.
SaveResultsWriteFails ==
    LET m == MergeResults(resultFile.data, results) IN
    /\ results' = IF resultFile.st = "ok" /\ m.ok THEN m.merged ELSE results
    /\ resultFile' \in {resultFile, [st |-> "corrupt", data |-> NoResults]}
    /\ saveBefore' = [valid |-> TRUE, file |-> resultFile, mem |-> results]
    /\ pret.calls < MaxPersistCalls
    /\ pret' = PersistCall("save_results", TRUE, FALSE)

\* add_question with every outcome of _save: _save re-raises (vector_db.py
\* 161-163) and add_question re-raises (105-107).
AddQuestionPersisting ==
    /\ Len(index) < MaxRecords
    /\ \E question \in Texts, outcome \in SaveOutcomes :
          /\ AddQuestionWith(question, MetaRecord(NextQuestionId(metadata), question), outcome)
          /\ pret.calls < MaxPersistCalls
          /\ pret' = PersistCall("add_question", outcome # "ok", vret'.raised)

\* backup_evaluation_result whose INSERT is committed.
BackupEvaluationResultCommitted ==
    /\ BackupEvaluationResult
    /\ pret.calls < MaxPersistCalls
    /\ pret' = PersistCall("backup_evaluation_result", FALSE, FALSE)

\* backup_evaluation_result (lines 167-171), backup_overall_metrics (269-273)
\* and backup_session (314-318) meeting sqlite3.Error: rollback, then raise.
BackupOps == {"backup_evaluation_result", "backup_overall_metrics", "backup_session"}

BackupWriteFails ==
    /\ backupCalls < MaxBackupCalls
    /\ backupCalls' = backupCalls + 1
    /\ \E op \in BackupOps :
          /\ bret' = [NoBackupCall EXCEPT !.op = op]
          /\ pret.calls < MaxPersistCalls
          /\ pret' = PersistCall(op, TRUE, TRUE)
    /\ rowsBefore' = evalRows
    /\ UNCHANGED <<evalRows, sessionRows, metricRows>>

(***************************************************************************)
(* get_embedding failures in add_question and search                       *)
(***************************************************************************)
NoEmbedCall == [op |-> "none", embed_failed |-> FALSE, raised |-> FALSE]

\* add_question whose get_embedding raises: the handler of lines 105-107
\* re-raises.
AddQuestionEmbedRaises ==
    /\ AddQuestionEmbedFails
    /\ eret' = [op |-> "add_question", embed_failed |-> TRUE, raised |-> TRUE]

\* add_question whose get_embedding returns.
AddQuestionEmbedded ==
    /\ AddQuestion
    /\ eret' = [op |-> "add_question", embed_failed |-> FALSE, raised |-> vret'.raised]

\* search: when get_embedding raises (vret.raised), the handler of lines
\* 145-147 logs the error and returns [] to the caller.
SearchEmbedding ==
    /\ Search
    /\ eret' = [op |-> "search", embed_failed |-> vret'.raised, raised |-> FALSE]

(***************************************************************************)
(* process_question_strategy: the response of strategy.process_response    *)
(***************************************************************************)
FieldNames == {"answer", "full_response", "has_reasoning", "reasoning"}

\* The model's raw completions.
RawResponses == {"raw1", "raw2"}

\* Python's True and False as field values.
PyTrue == "True"
PyFalse == "False"

\* The values a well-behaved process_response gives each field.
FieldValues(key) ==
    CASE key = "answer" -> {"A"}
      [] key = "full_response" -> {"F"}
      [] key = "has_reasoning" -> {PyTrue, PyFalse}
      [] OTHER -> {NoneValue, "R"}

\* The dicts process_response may return: any subset of the four fields.
ResponseDicts ==
    UNION {[keys -> {"A", "F", "R", NoneValue, PyTrue, PyFalse}] : keys \in SUBSET FieldNames}

EmptyDict == [key \in {} |-> NoneValue]

WellTyped(d) == \A key \in DOMAIN d : d[key] \in FieldValues(key)

\* What a call of strategy.process_response does: raise, return a value that
\* is not a dict (a string, None), or return a dict.
ProcessOutputs ==
    {[kind |-> "raise", val |-> NoneValue, dict |-> EmptyDict]}
       \cup {[kind |-> "value", val |-> v, dict |-> EmptyDict] : v \in {"text", NoneValue}}
       \cup {[kind |-> "dict", val |-> NoneValue, dict |-> d] :
                 d \in {d \in ResponseDicts : WellTyped(d)}}

\* Lines 175-186 without the membership test: nothing is filled in.
SetDefaultSkips(d, key, v) == d

\* `if key not in processed_response: processed_response[key] = v`
SetDefault(d, key, v) == IF key \in DOMAIN d THEN d ELSE (key :> v) @@ d

\* Lines 175-186: the four membership tests in order.
EnsureFields(d, response) ==
    SetDefault(SetDefault(SetDefault(SetDefault(d, "answer", response),
                                     "full_response", response),
                          "has_reasoning", PyFalse),
               "reasoning", NoneValue)

\* Lines 163-197: the processed response the task continues with.
ProcessedResponse(out, response) ==
    CASE out.kind = "raise" ->
            [full_response |-> response, answer |-> response,
             has_reasoning |-> PyFalse, reasoning |-> NoneValue]
      [] out.kind = "value" ->
            \* str(processed_response) of a string or of None
            EnsureFields([full_response |-> response, answer |-> out.val,
                          has_reasoning |-> PyFalse], response)
      [] OTHER -> EnsureFields(out.dict, response)

NoTask == [op |-> "none", out |-> [kind |-> "raise", val |-> NoneValue, dict |-> EmptyDict],
           response |-> "",
           processed |-> [answer |-> ""], rest_ok |-> FALSE, success |-> FALSE]

\* One process_question_strategy call whose model call returned response:
\* process_response, the backfill, then log_conversation and evaluate_answer,
\* which succeed or raise into the handler of the outer try.
ProcessQuestionStrategy ==
    \E out \in ProcessOutputs, response \in RawResponses, rest_ok \in BOOLEAN :
       presp' = [op |-> "process_question_strategy", out |-> out, response |-> response,
                 processed |-> ProcessedResponse(out, response),
                 rest_ok |-> rest_ok, success |-> rest_ok]

(***************************************************************************)
(* VectorStore (vectorization/vector_store.py)                             *)
(***************************************************************************)
EmptyStore == [index |-> <<>>, metadata |-> <<>>]

NoStoreCall == [op |-> "none", k |-> 0, qv |-> 0, res |-> <<>>]

\* vectorize_dataset lines 64-84: the n-th dataset question is embedded and
\* added with its id; add_vector lines 85-95 append to the index and to the
\* metadata list.
AddVector ==
    /\ Len(vstore.metadata) < MaxRecords
    /\ \E question \in Texts :
          vstore' = [index |-> Append(vstore.index, Embed(question)),
                     metadata |-> Append(vstore.metadata,
                                         [id |-> Len(vstore.metadata), question |-> question])]
    /\ vsret' = NoStoreCall

\* search line 124: `if idx < len(self.metadata)`
ValidLabel(label, md) == label < Len(md)

\* Python's list[idx] raises IndexError outside -len..len-1.
PyIndexError(lst, idx) == idx < -Len(lst) \/ idx >= Len(lst)

\* search lines 114-134: index.search(query_array, k) with the k passed, then
\* one result per slot whose label passes the test, with its distance and
\* its rank; an exception (self.metadata[-1] on an empty list) is caught by
\* the handler of lines 132-134, which returns [].
StoreSearchResults(store, qv, k) ==
    LET Keep(h) == ValidLabel(h.label, store.metadata)
        Result(hits, i) == ("distance" :> hits[i].distance) @@ ("rank" :> i) @@
                              PyItem(store.metadata, hits[i].label)
        Slots(hits) == SelectSeq([i \in 1..Len(hits) |-> i], LAMBDA i : Keep(hits[i]))
        Raises(hits) == \E i \in DOMAIN hits :
                           Keep(hits[i]) /\ PyIndexError(store.metadata, hits[i].label)
        Collect(hits) == IF Raises(hits) THEN <<>>
                         ELSE [j \in 1..Len(Slots(hits)) |-> Result(hits, Slots(hits)[j])]
    IN {Collect(hits) : hits \in FaissSearch(store.index, qv, k)}

\* VectorStore.search(query_vector, k)
StoreSearch ==
    /\ \E question \in Texts, k \in 1..MaxK :
          \E res \in StoreSearchResults(vstore, Embed(question), k) :
             vsret' = [op |-> "search", k |-> k, qv |-> Embed(question), res |-> res]
    /\ UNCHANGED vstore

(***************************************************************************)
(* FewShotCoT: one strategy instance shared by the tasks of a worker pool  *)
(* (main.py 370-387). generate_prompt stores the retrieved examples in an  *)
(* attribute of the instance and process_response reads the attribute; no  *)
(* lock is taken, so workers interleave between the statements.            *)
(***************************************************************************)
NumExamples == 2

\* The vector database init_vector_db builds from the dataset (main.py 70-76).
DatasetTexts == <<"2+2=?", "3+3=?", "capital of France?">>

DatasetIndex == [p \in DOMAIN DatasetTexts |-> Embed(DatasetTexts[p])]

DatasetMetadata == [p \in DOMAIN DatasetTexts |-> MetaRecord(p - 1, DatasetTexts[p])]

\* generate_prompt line 46: the lists get_similar_questions may return for
\* the question.
Examples(question) ==
    {Pairs(Shortlist(found, NumExamples, TRUE)) :
        found \in SearchResults(DatasetIndex, DatasetMetadata, question,
                                ActualK(NumExamples, TRUE))}

\* generate_prompt lines 51-53: the tuple stored for the i-th example (the
\* similarity is a function of i).
SimilarEntry(i, pair) == [i |-> i, q |-> pair[1], a |-> pair[2]]

\* The list generate_prompt builds from examples when nothing interferes.
SimilarList(examples) == [n \in DOMAIN examples |-> SimilarEntry(n - 1, examples[n])]

IdleWorker == [pc |-> "idle", question |-> "", examples |-> <<>>, i |-> 0, attached |-> <<>>]

\* A worker takes a task of the few_shot strategy; generate_prompt lines
\* 46-50: the examples are retrieved, then the attribute is set to a new list.
FsReset(t) ==
    /\ fsThr[t].pc = "idle"
    /\ \E question \in Texts :
          /\ \A u \in Threads : fsThr[u].question # question
          /\ \E examples \in Examples(question) :
                fsThr' = [fsThr EXCEPT ![t] = [IdleWorker EXCEPT !.pc = "append",
                                                                 !.question = question,
                                                                 !.examples = examples]]
    /\ lastSimilar' = <<>>

\* generate_prompt lines 51-53: one pass of the loop; the attribute is read
\* again at each append.
FsAppend(t) ==
    /\ fsThr[t].pc = "append"
    /\ fsThr[t].i < Len(fsThr[t].examples)
    /\ lastSimilar' = Append(lastSimilar,
                             SimilarEntry(fsThr[t].i, fsThr[t].examples[fsThr[t].i + 1]))
    /\ fsThr' = [fsThr EXCEPT ![t].i = @ + 1]

\* generate_prompt returns and the model is called (main.py 141-159).
FsComplete(t) ==
    /\ fsThr[t].pc = "append"
    /\ fsThr[t].i = Len(fsThr[t].examples)
    /\ fsThr' = [fsThr EXCEPT ![t].pc = "answered"]
    /\ UNCHANGED lastSimilar

\* process_response line 98: the attribute as it is now becomes the
\* response's similar_questions metadata.
FsProcess(t) ==
    /\ fsThr[t].pc = "answered"
    /\ fsThr' = [fsThr EXCEPT ![t].pc = "done", ![t].attached = lastSimilar]
    /\ UNCHANGED lastSimilar

FewShotIdle ==
    /\ lastSimilar = <<>>
    /\ fsThr = [t \in Threads |-> IdleWorker]

(***************************************************************************)
(* BatchEvaluator.evaluate_logs over the stored conversation logs          *)
(***************************************************************************)
MaxLogs == 2            \* conversation logs written
MaxEvaluateCalls == 2   \* evaluate_logs calls in a behaviour

Logs == 1..MaxLogs

NoLogFile == [has |-> FALSE, strategy |-> "", session_id |-> "", evaluated |-> FALSE]

\* log_conversation lines 90-104 and 117-121: a log file with evaluated false
\* (a run with log_only); with a backup the entry is also a row of the
\* session in the database (lines 125-131).
LogConversation ==
    \E log \in Logs, strategy \in Strategies, session_id \in Sessions :
       /\ ~logFiles[log].has
       /\ \A other \in Logs : other < log => logFiles[other].has
       /\ logFiles' = [logFiles EXCEPT ![log] = [has |-> TRUE, strategy |-> strategy,
                                                 session_id |-> session_id,
                                                 evaluated |-> FALSE]]
       /\ UNCHANGED batchEval

\* The entries get_unevaluated_logs and the file branch of get_logs_by_session
\* return: read from the files, with the evaluated flag and the log_file path.
FileEntry(log) ==
    [log |-> log, strategy |-> logFiles[log].strategy, from_file |-> TRUE,
     evaluated |-> logFiles[log].evaluated]

\* The records get_session_results builds from the rows (sqlite_backup.py
\* 448-468): no evaluated key, no log_file key, no full_response key.
RowEntry(log) ==
    [log |-> log, strategy |-> logFiles[log].strategy, from_file |-> FALSE,
     evaluated |-> FALSE]

\* get_logs_by_session lines 233-244: with a backup, and a session row for
\* the session, the records come from the database.
FromDatabase(session_id) ==
    /\ batchEval.with_backup
    /\ \E log \in Logs : logFiles[log].has /\ logFiles[log].session_id = session_id

\* A filter that keeps every log.
UnevaluatedAlways(entry) == TRUE

\* `not log.get("evaluated", False)`
Unevaluated(entry) == ~entry.evaluated

\* evaluate_logs lines 110-123: the logs selected.
SelectedLogs(strategy_name, session_id) ==
    LET stored == {log \in Logs : logFiles[log].has}
        entries ==
           IF session_id # NoneValue
           THEN LET mine == {log \in stored : logFiles[log].session_id = session_id}
                    all == IF FromDatabase(session_id)
                           THEN {RowEntry(log) : log \in mine}
                           ELSE {FileEntry(log) : log \in mine}
                IN {e \in all : Unevaluated(e)}
           ELSE {e \in {FileEntry(log) : log \in stored} : Unevaluated(e)}
    IN IF strategy_name # NoneValue
       THEN {e \in entries : e.strategy = strategy_name}
       ELSE entries

\* process_log lines 55-77: a record built from a database row has no
\* full_response key, so building evaluate_answer's arguments raises KeyError
\* before the judge is called; an entry read from a file is judged, added to
\* the aggregator and marked evaluated.
Processed(entries) == {e.log : e \in {e \in entries : e.from_file}}

NoBatch(with_backup) ==
    [with_backup |-> with_backup, calls |-> 0,
     strategy_name |-> NoneValue, session_id |-> NoneValue, selected |-> {},
     judge_calls |-> [log \in Logs |-> 0], records |-> [log \in Logs |-> 0]]

\* evaluate_logs(strategy_name, session_id): every selected log is passed to
\* process_log, one after the other or by the pool's workers.
EvaluateLogs ==
    /\ batchEval.calls < MaxEvaluateCalls
    /\ \E strategy_name \in Strategies \cup {NoneValue},
          session_id \in Sessions \cup {NoneValue} :
          LET entries == SelectedLogs(strategy_name, session_id)
              done == Processed(entries)
          IN /\ batchEval' =
                   [batchEval EXCEPT
                       !.calls = @ + 1,
                       !.strategy_name = strategy_name,
                       !.session_id = session_id,
                       !.selected = {e.log : e \in entries},
                       !.judge_calls = [log \in Logs |-> IF log \in done THEN @[log] + 1
                                                          ELSE @[log]],
                       !.records = [log \in Logs |-> IF log \in done THEN @[log] + 1
                                                      ELSE @[log]]]
             /\ logFiles' = [log \in Logs |->
                                IF log \in done
                                THEN [logFiles[log] EXCEPT !.evaluated = TRUE]
                                ELSE logFiles[log]]

BatchIdle ==
    /\ logFiles = [log \in Logs |-> NoLogFile]
    /\ batchEval = NoBatch(FALSE)

CtxIdle ==
    /\ convLogger = NoLogger
    /\ pret = NoPersistCall
    /\ eret = NoEmbedCall
    /\ presp = NoTask
    /\ vstore = EmptyStore
    /\ vsret = NoStoreCall
    /\ FewShotIdle
    /\ BatchIdle

OtherIdle ==
    /\ CtxIdle
    /\ mret = NoMetricsCall
    /\ jret = NoJudgeCall
    /\ plan = NoPlan
    /\ logOnly = FALSE
    /\ logged = {}
    /\ judged = {}

Init ==
    /\ VdbInit
    /\ ConcIdle
    /\ EvalIdle
    /\ SaveIdle
    /\ BackupIdle
    /\ OtherIdle

Next ==
    \/ AddQuestion /\ UNCHANGED <<ctxVars, sret, concVars, otherVars, evalVars, saveVars, backupVars>>
    \/ AddQuestionEmbedFails /\ UNCHANGED <<ctxVars, sret, concVars, otherVars, evalVars, saveVars, backupVars>>
    \/ Search /\ UNCHANGED <<ctxVars, sret, concVars, otherVars, evalVars, saveVars, backupVars>>
    \/ Clear /\ UNCHANGED <<ctxVars, sret, concVars, otherVars, evalVars, saveVars, backupVars>>
    \/ Reload /\ UNCHANGED <<ctxVars, sret, concVars, otherVars, evalVars, saveVars, backupVars>>

\* One thread using a VectorDatabase.
Spec == Init /\ [][Next]_vars

NextSimilar ==
    \/ AddQuestionSaved /\ sret' = NoSimilar /\ UNCHANGED <<ctxVars, concVars, otherVars, evalVars, saveVars, backupVars>>
    \/ AddQuestionBare /\ sret' = NoSimilar /\ UNCHANGED <<ctxVars, concVars, otherVars, evalVars, saveVars, backupVars>>
    \/ GetSimilarQuestions /\ UNCHANGED <<ctxVars, concVars, otherVars, evalVars, saveVars, backupVars>>
    \/ GetSimilarQuestionsEmbedFails /\ UNCHANGED <<ctxVars, concVars, otherVars, evalVars, saveVars, backupVars>>

\* A database filled by add_question and queried by get_similar_questions.
SpecSimilar == Init /\ [][NextSimilar]_vars

NextConc ==
    \/ \E t \in Threads : ThrEmbed(t) /\ UNCHANGED <<ctxVars, vret, addLog, allOk, faults, sret, otherVars, evalVars, saveVars, backupVars>>
    \/ \E t \in Threads : ThrIndexAdd(t) /\ UNCHANGED <<ctxVars, vret, addLog, allOk, faults, sret, otherVars, evalVars, saveVars, backupVars>>
    \/ \E t \in Threads : ThrReadLen(t) /\ UNCHANGED <<ctxVars, vret, addLog, allOk, faults, sret, otherVars, evalVars, saveVars, backupVars>>
    \/ \E t \in Threads : ThrAppend(t) /\ UNCHANGED <<ctxVars, vret, addLog, allOk, faults, sret, otherVars, evalVars, saveVars, backupVars>>
    \/ \E t \in Threads : ThrSave(t) /\ UNCHANGED <<ctxVars, vret, addLog, allOk, faults, sret, otherVars, evalVars, saveVars, backupVars>>

\* Several threads calling add_question on one VectorDatabase.
SpecConc == Init /\ [][NextConc]_vars

InitEval ==
    /\ VdbInit
    /\ ConcIdle
    /\ EvalInit
    /\ SaveIdle
    /\ BackupIdle
    /\ OtherIdle

NextEval ==
    \/ \E i \in Tasks : TaskModelFails(i) /\ UNCHANGED <<ctxVars, vdbVars, concVars, otherVars, saveVars, backupVars>>
    \/ \E i \in Tasks : TaskModelAnswers(i) /\ UNCHANGED <<ctxVars, vdbVars, concVars, otherVars, saveVars, backupVars>>
    \/ \E i \in Tasks : EvalCheck(i) /\ UNCHANGED <<ctxVars, vdbVars, concVars, otherVars, saveVars, backupVars>>
    \/ \E i \in Tasks : EvalCreate(i) /\ UNCHANGED <<ctxVars, vdbVars, concVars, otherVars, saveVars, backupVars>>
    \/ \E i \in Tasks : EvalAppend(i) /\ UNCHANGED <<ctxVars, vdbVars, concVars, otherVars, saveVars, backupVars>>
    \/ \E i \in Tasks : Harvest(i) /\ UNCHANGED <<ctxVars, vdbVars, concVars, otherVars, saveVars, backupVars>>
    \/ RunReturns /\ UNCHANGED <<ctxVars, vdbVars, concVars, otherVars, saveVars, backupVars>>

\* One run of run_evaluation, in the loop or in the worker pool.
SpecEval == InitEval /\ [][NextEval]_vars

\* A run in which every model call and judge call returns or fails, every
\* worker keeps running and the main thread keeps harvesting.
SpecEvalFair == SpecEval /\ WF_vars(NextEval)

NextSave ==
    \/ EvaluateAnswer /\ UNCHANGED <<ctxVars, vdbVars, concVars, otherVars, numThreads, apiFail, task, runPc, backupVars>>
    \/ NewEvaluator /\ UNCHANGED <<ctxVars, vdbVars, concVars, otherVars, numThreads, apiFail, task, runPc, backupVars>>
    \/ SaveResults /\ UNCHANGED <<ctxVars, vdbVars, concVars, otherVars, numThreads, apiFail, task, runPc, backupVars>>

\* Evaluators of successive processes saving to one result file.
SpecSave == Init /\ [][NextSave]_vars

InitBackup ==
    /\ VdbInit
    /\ ConcIdle
    /\ results \in RunResults
    /\ numThreads = 1
    /\ apiFail = {}
    /\ task = [i \in Tasks |-> PendingTask]
    /\ runPc = "returned"
    /\ SaveIdle
    /\ BackupIdle
    /\ OtherIdle

NextBackup ==
    \/ BackupEvaluationResult /\ UNCHANGED <<ctxVars, vdbVars, concVars, otherVars, evalVars, saveVars>>
    \/ BackupAllResults /\ UNCHANGED <<ctxVars, vdbVars, concVars, otherVars, evalVars, saveVars>>

\* SQLiteBackup calls after a run.
SpecBackup == InitBackup /\ [][NextBackup]_vars

NextSession ==
    \/ NewConversationLogger /\ UNCHANGED <<vdbVars, concVars, otherVars, evalVars, saveVars>>
    \/ RunBackup /\ UNCHANGED <<vdbVars, concVars, otherVars, evalVars, saveVars>>

\* A conversation logger created with a backup, then the backup at the end
\* of its run.
SpecSession == InitBackup /\ [][NextSession]_vars

NextPersist ==
    \/ SaveResultsWritten /\ UNCHANGED <<convLogger, logFiles, batchEval, lastSimilar, fsThr, vstore, vsret, presp, eret, vdbVars, concVars, otherVars, numThreads, apiFail, task, runPc, backupVars>>
    \/ SaveResultsWriteFails /\ UNCHANGED <<convLogger, logFiles, batchEval, lastSimilar, fsThr, vstore, vsret, presp, eret, vdbVars, concVars, otherVars, numThreads, apiFail, task, runPc, backupVars>>
    \/ AddQuestionPersisting /\ UNCHANGED <<convLogger, logFiles, batchEval, lastSimilar, fsThr, vstore, vsret, presp, eret, sret, concVars, otherVars, evalVars, saveVars, backupVars>>
    \/ BackupEvaluationResultCommitted /\ UNCHANGED <<convLogger, logFiles, batchEval, lastSimilar, fsThr, vstore, vsret, presp, eret, vdbVars, concVars, otherVars, evalVars, saveVars>>
    \/ BackupWriteFails /\ UNCHANGED <<convLogger, logFiles, batchEval, lastSimilar, fsThr, vstore, vsret, presp, eret, vdbVars, concVars, otherVars, evalVars, saveVars>>

\* The persistence calls, with and without write failures.
SpecPersist == Init /\ [][NextPersist]_vars

NextEmbed ==
    \/ AddQuestionEmbedded /\ UNCHANGED <<convLogger, logFiles, batchEval, lastSimilar, fsThr, vstore, vsret, presp, pret, sret, concVars, otherVars, evalVars, saveVars, backupVars>>
    \/ AddQuestionEmbedRaises /\ UNCHANGED <<convLogger, logFiles, batchEval, lastSimilar, fsThr, vstore, vsret, presp, pret, sret, concVars, otherVars, evalVars, saveVars, backupVars>>
    \/ SearchEmbedding /\ UNCHANGED <<convLogger, logFiles, batchEval, lastSimilar, fsThr, vstore, vsret, presp, pret, sret, concVars, otherVars, evalVars, saveVars, backupVars>>

\* add_question and search calls whose get_embedding call returns or raises.
SpecEmbed == Init /\ [][NextEmbed]_vars

NextProcess ==
    \/ ProcessQuestionStrategy /\ UNCHANGED <<convLogger, logFiles, batchEval, lastSimilar, fsThr, vstore, vsret, pret, eret, vdbVars, concVars, otherVars, evalVars, saveVars, backupVars>>

\* Tasks whose strategy.process_response returns or raises anything.
SpecProcess == Init /\ [][NextProcess]_vars

InitRunRows ==
    /\ VdbInit
    /\ ConcIdle
    /\ EvalInit
    /\ SaveIdle
    /\ BackupIdle
    /\ OtherIdle

NextRunRows ==
    \/ NewConversationLogger /\ UNCHANGED <<vdbVars, concVars, otherVars, evalVars, saveVars>>
    \/ \E i \in Tasks : TaskFailsUnlogged(i) /\ UNCHANGED <<ctxVars, vdbVars, concVars, mret, jret, plan, saveVars>>
    \/ \E i \in Tasks : TaskLogsRow(i) /\ UNCHANGED <<ctxVars, vdbVars, concVars, mret, jret, plan, saveVars>>
    \/ \E i \in Tasks : EvalCheck(i) /\ UNCHANGED <<ctxVars, vdbVars, concVars, otherVars, saveVars, backupVars>>
    \/ \E i \in Tasks : EvalCreate(i) /\ UNCHANGED <<ctxVars, vdbVars, concVars, otherVars, saveVars, backupVars>>
    \/ \E i \in Tasks : EvalAppendMetrics(i) /\ UNCHANGED <<ctxVars, vdbVars, concVars, otherVars, saveVars>>
    \/ \E i \in Tasks : Harvest(i) /\ UNCHANGED <<ctxVars, vdbVars, concVars, otherVars, saveVars, backupVars>>
    \/ RunReturnsWithBackup /\ UNCHANGED <<vdbVars, concVars, otherVars, saveVars>>

\* One run of run_evaluation with a conversation logger and a backup: rows
\* written per task by the logger and in bulk at the end.
SpecRunRows == InitRunRows /\ [][NextRunRows]_vars

NextStore ==
    \/ AddVector /\ UNCHANGED <<convLogger, logFiles, batchEval, lastSimilar, fsThr, pret, eret, presp, vdbVars, concVars, otherVars, evalVars, saveVars, backupVars>>
    \/ StoreSearch /\ UNCHANGED <<convLogger, logFiles, batchEval, lastSimilar, fsThr, pret, eret, presp, vdbVars, concVars, otherVars, evalVars, saveVars, backupVars>>

\* A VectorStore filled by vectorize_dataset and searched.
SpecStore == Init /\ [][NextStore]_vars

NextFewShot ==
    \/ \E t \in Threads : FsReset(t) /\ UNCHANGED <<convLogger, logFiles, batchEval, pret, eret, presp, vstore, vsret, vdbVars, concVars, otherVars, evalVars, saveVars, backupVars>>
    \/ \E t \in Threads : FsAppend(t) /\ UNCHANGED <<convLogger, logFiles, batchEval, pret, eret, presp, vstore, vsret, vdbVars, concVars, otherVars, evalVars, saveVars, backupVars>>
    \/ \E t \in Threads : FsComplete(t) /\ UNCHANGED <<convLogger, logFiles, batchEval, pret, eret, presp, vstore, vsret, vdbVars, concVars, otherVars, evalVars, saveVars, backupVars>>
    \/ \E t \in Threads : FsProcess(t) /\ UNCHANGED <<convLogger, logFiles, batchEval, pret, eret, presp, vstore, vsret, vdbVars, concVars, otherVars, evalVars, saveVars, backupVars>>

\* The few_shot tasks of a worker pool run on one FewShotCoT instance.
SpecFewShot == Init /\ [][NextFewShot]_vars

InitBatch ==
    /\ VdbInit
    /\ ConcIdle
    /\ EvalIdle
    /\ SaveIdle
    /\ BackupIdle
    /\ mret = NoMetricsCall
    /\ jret = NoJudgeCall
    /\ plan = NoPlan
    /\ logOnly = FALSE
    /\ logged = {}
    /\ judged = {}
    /\ convLogger = NoLogger
    /\ pret = NoPersistCall
    /\ eret = NoEmbedCall
    /\ presp = NoTask
    /\ vstore = EmptyStore
    /\ vsret = NoStoreCall
    /\ FewShotIdle
    /\ logFiles = [log \in Logs |-> NoLogFile]
    /\ \E with_backup \in BOOLEAN : batchEval = NoBatch(with_backup)

NextBatch ==
    \/ LogConversation /\ UNCHANGED <<convLogger, pret, eret, presp, vstore, vsret, lastSimilar, fsThr, vdbVars, concVars, otherVars, evalVars, saveVars, backupVars>>
    \/ EvaluateLogs /\ UNCHANGED <<convLogger, pret, eret, presp, vstore, vsret, lastSimilar, fsThr, vdbVars, concVars, otherVars, evalVars, saveVars, backupVars>>

\* Conversation logs written by log-only runs, with or without a backup, and
\* evaluate_logs calls over them.
SpecBatch == InitBatch /\ [][NextBatch]_vars

NextMetrics ==
    \/ LoadResults /\ UNCHANGED <<ctxVars, vdbVars, concVars, logOnly, logged, judged, jret, plan, numThreads, apiFail, task, runPc, saveVars, backupVars>>
    \/ CalculateOverallMetrics /\ UNCHANGED <<ctxVars, vdbVars, concVars, logOnly, logged, judged, jret, plan, numThreads, apiFail, task, runPc, saveVars, backupVars>>

\* An Evaluator that loads a result file and computes the overall metrics.
SpecMetrics == Init /\ [][NextMetrics]_vars

NextJudge ==
    \/ EvaluateAnswerJudged /\ UNCHANGED <<ctxVars, vdbVars, concVars, logOnly, logged, judged, mret, plan, numThreads, apiFail, task, runPc, saveVars, backupVars>>
    \/ NewEvaluator /\ jret' = NoJudgeCall /\ UNCHANGED <<ctxVars, vdbVars, concVars, logOnly, logged, judged, mret, plan, numThreads, apiFail, task, runPc, resultFile, backupVars>>

\* evaluate_answer calls with every output of the judge model.
SpecJudge == Init /\ [][NextJudge]_vars

NextTasks ==
    \/ RunEvaluationTasks /\ UNCHANGED <<ctxVars, vdbVars, concVars, logOnly, logged, judged, mret, jret, evalVars, saveVars, backupVars>>

\* Calls of run_evaluation with every combination of filters.
SpecTasks == Init /\ [][NextTasks]_vars

InitLogOnly ==
    /\ VdbInit
    /\ ConcIdle
    /\ EvalInit
    /\ SaveIdle
    /\ BackupIdle
    /\ mret = NoMetricsCall
    /\ jret = NoJudgeCall
    /\ plan = NoPlan
    /\ logOnly \in BOOLEAN
    /\ logged = {}
    /\ judged = {}
    /\ CtxIdle

NextLogOnly ==
    \/ \E i \in Tasks : TaskModelFails(i) /\ UNCHANGED <<ctxVars, vdbVars, concVars, mret, jret, plan, logOnly, logged, judged, saveVars, backupVars>>
    \/ \E i \in Tasks : TaskAnswersLogged(i) /\ UNCHANGED <<ctxVars, vdbVars, concVars, mret, jret, plan, saveVars, backupVars>>
    \/ \E i \in Tasks : EvalCheck(i) /\ UNCHANGED <<ctxVars, vdbVars, concVars, mret, jret, plan, logOnly, logged, judged, saveVars, backupVars>>
    \/ \E i \in Tasks : EvalCreate(i) /\ UNCHANGED <<ctxVars, vdbVars, concVars, mret, jret, plan, logOnly, logged, judged, saveVars, backupVars>>
    \/ \E i \in Tasks : EvalAppend(i) /\ UNCHANGED <<ctxVars, vdbVars, concVars, mret, jret, plan, logOnly, logged, judged, saveVars, backupVars>>
    \/ \E i \in Tasks : Harvest(i) /\ UNCHANGED <<ctxVars, vdbVars, concVars, mret, jret, plan, logOnly, logged, judged, saveVars, backupVars>>
    \/ RunReturnsBackedUp /\ UNCHANGED <<ctxVars, vdbVars, concVars, mret, jret, plan, saveVars>>

\* One run of run_evaluation with or without log_only, with a conversation
\* logger and a backup.
SpecLogOnly == InitLogOnly /\ [][NextLogOnly]_vars

(***************************************************************************)
(* The claims.                                                             *)
(***************************************************************************)

\* The records the aggregator holds.
TotalRecords ==
    LET Count[k \in 0..Len(StrategyOrder)] ==
            IF k = 0 THEN 0 ELSE Count[k - 1] + Len(results[StrategyOrder[k]].list)
    IN Count[Len(StrategyOrder)]

\* C1: a run in which the model call fails for exactly one task returns
\* with N-1 records in the aggregator and exactly one task reported failed,
\* in the loop and in the worker pool.
FailOpenRun ==
    (runPc = "returned" /\ Cardinality(apiFail) = 1) =>
       /\ TotalRecords = Len(TaskList) - 1
       /\ Cardinality({i \in Tasks : task[i].pc = "reported" /\ ~task[i].success}) = 1
       /\ Cardinality({i \in Tasks : task[i].pc = "reported" /\ task[i].success}) =
             Len(TaskList) - 1

\* The property of FailOpenRun when run_evaluation takes the loop of lines
\* 334-364 (num_threads = 1).
FailOpenRunInLoop == (numThreads = 1) => FailOpenRun

\* C2: once every evaluate_answer call has returned, each strategy's list
\* holds exactly one record per returned call.
NoRecordLost ==
    (\A i \in Tasks : task[i].pc \in {"finished", "reported"}) =>
       \A i \in Tasks :
          task[i].success =>
             Cardinality({n \in DOMAIN results[TaskList[i].strategy_name].list :
                             results[TaskList[i].strategy_name].list[n] =
                                EvalRecord(TaskList[i].question_id,
                                           TaskList[i].strategy_name)}) = 1

\* The rows of a table stored for one strategy and session.
RowsOf(rows, strategy, session_id) ==
    {n \in DOMAIN rows : rows[n].strategy = strategy /\ rows[n].session_id = session_id}

\* C3: after backup_all_results, every record of every strategy has exactly
\* one evaluation row under (the record's question_id, strategy, session_id),
\* and a strategy and session that had no rows before hold as many rows as
\* the strategy's list holds records.
BackupKeepsQuestionIds ==
    (bret.op = "backup_all_results") =>
       \A strategy \in Strategies :
          LET recs == results[strategy].list IN
          /\ \A n \in DOMAIN recs :
                Cardinality({m \in DOMAIN evalRows :
                                RowKey(evalRows[m]) =
                                   <<recs[n].question_id, strategy, bret.session_id>>}) = 1
          /\ RowsOf(rowsBefore, strategy, bret.session_id) = {} =>
                Cardinality(RowsOf(evalRows, strategy, bret.session_id)) = Len(recs)

\* C4: after backup_evaluation_result the table holds exactly one row under
\* the call's (question id, strategy, session_id) key, that row holds the
\* call's values, and the rows under other keys are the rows the call found.
IdempotentUpsert ==
    (bret.op = "backup_evaluation_result") =>
       LET row == EvalRow(bret.result, bret.strategy, bret.session_id)
           Same(r) == RowKey(r) = RowKey(row)
           Other(r) == RowKey(r) # RowKey(row)
       IN /\ SelectSeq(evalRows, Same) = <<row>>
          /\ SelectSeq(evalRows, Other) = SelectSeq(rowsBefore, Other)

\* A call with a record that carries an 'id', under a key that already held
\* a row with another score.
IdempotentUpsertWitness ==
    /\ bret.op = "backup_evaluation_result"
    /\ "id" \in DOMAIN bret.result
    /\ \E n \in DOMAIN rowsBefore :
          /\ RowKey(rowsBefore[n]) =
                <<bret.result.id, bret.strategy, bret.session_id>>
          /\ rowsBefore[n].accuracy_score # bret.result.score

\* save_results found a readable file whose strategies are all absent from
\* memory.
DisjointSave ==
    /\ saveBefore.valid
    /\ saveBefore.file.st = "ok"
    /\ \A strategy \in Strategies :
          ~(saveBefore.file.data[strategy].has /\ saveBefore.mem[strategy].has)

\* C5: when the strategies of the file on disk are all absent from memory,
\* the file save_results writes holds every on-disk strategy with its
\* records unchanged and every in-memory strategy with all its records.
MergeDisjoint ==
    DisjointSave =>
       /\ resultFile.st = "ok"
       /\ \A strategy \in Strategies :
             /\ saveBefore.file.data[strategy].has =>
                   resultFile.data[strategy] = saveBefore.file.data[strategy]
             /\ saveBefore.mem[strategy].has =>
                   resultFile.data[strategy] = saveBefore.mem[strategy]
             /\ resultFile.data[strategy].has =>
                   saveBefore.file.data[strategy].has \/ saveBefore.mem[strategy].has

\* A disjoint save with a strategy on disk and another one in memory.
MergeDisjointWitness ==
    /\ DisjointSave
    /\ \E strategy \in Strategies : saveBefore.file.data[strategy].has
    /\ \E strategy \in Strategies :
          saveBefore.mem[strategy].has /\ saveBefore.mem[strategy].list # <<>>

\* C6: when a strategy is both in the file on disk and in memory, the file
\* save_results writes holds, for that strategy, the union of its on-disk and
\* in-memory records, and every other on-disk strategy unchanged.
MergeOverlapping ==
    (/\ saveBefore.valid
     /\ saveBefore.file.st = "ok"
     /\ \E strategy \in Strategies :
           saveBefore.file.data[strategy].has /\ saveBefore.mem[strategy].has) =>
       /\ resultFile.st = "ok"
       /\ \A strategy \in Strategies :
             /\ (saveBefore.file.data[strategy].has /\ saveBefore.mem[strategy].has) =>
                   /\ resultFile.data[strategy].has
                   /\ Range(resultFile.data[strategy].list) =
                         Range(saveBefore.file.data[strategy].list) \cup
                            Range(saveBefore.mem[strategy].list)
             /\ (saveBefore.file.data[strategy].has /\ ~saveBefore.mem[strategy].has) =>
                   resultFile.data[strategy] = saveBefore.file.data[strategy]

\* C11: when the index contains the query text Q and the k+1 fetch window
\* holds at least one other record, get_similar_questions(Q, k=1,
\* exclude_exact_match=true) returns no pair whose question text is Q.
NearExactExcluded ==
    (/\ sret.op = "get_similar_questions"
     /\ sret.k = 1
     /\ sret.exclude
     /\ \E n \in DOMAIN metadata : metadata[n].question = sret.query
     /\ \E p \in DOMAIN index : index[p] = Embed(sret.query)
     /\ Len(sret.found) >= 2) =>
       \A i \in DOMAIN sret.pairs : sret.pairs[i][1] # sret.query

\* C12: get_similar_questions requests k+1 results and drops the first one
\* if and only if its distance is below 0.05 when exclude_exact_match is
\* true, requests k and drops nothing otherwise; it returns at most k pairs,
\* in the order of the search, omitting only records without a question or
\* an answer field.
SimilarShortlist ==
    (sret.op = "get_similar_questions") =>
       LET found == sret.found
           off == IF /\ sret.exclude
                     /\ found # <<>>
                     /\ found[1].distance * 100 < NearExactHundredths
                  THEN 1 ELSE 0
           n == Min(sret.k, Len(found) - off)
           whole == {i \in 1..n : /\ "question" \in DOMAIN found[i + off]
                                  /\ "answer" \in DOMAIN found[i + off]}
       IN /\ vret.op = "search"
          /\ vret.k = IF sret.exclude THEN sret.k + 1 ELSE sret.k
          /\ ~vret.raised => found = vret.res
          /\ Len(sret.pairs) <= sret.k
          /\ Len(sret.pairs) = Cardinality(whole)
          /\ \A i \in whole :
                LET j == Cardinality({h \in whole : h <= i})
                IN sret.pairs[j] = <<found[i + off].question, found[i + off].answer>>

\* A call with exclude_exact_match=true whose first result is at distance 0
\* and whose remaining results include a record without an answer.
SimilarShortlistWitness ==
    /\ sret.op = "get_similar_questions"
    /\ sret.exclude
    /\ sret.k >= 1
    /\ Len(sret.found) >= 2
    /\ sret.found[1].distance = 0
    /\ "answer" \notin DOMAIN sret.found[2]

\* The sum and the number of the well-formed accuracy scores among the first
\* n records of a list.
RECURSIVE WellFormedScores(_, _)
WellFormedScores(evals, n) ==
    IF n = 0 THEN <<0, 0>>
    ELSE LET before == WellFormedScores(evals, n - 1)
         IN IF "score" \in DOMAIN evals[n]
            THEN <<before[1] + evals[n].score, before[2] + 1>>
            ELSE before

\* C13: for every mix of well-formed and malformed records
\* calculate_overall_metrics does not raise, and reports for every strategy
\* an average equal to the sum of the well-formed accuracy scores divided by
\* their number, and a count equal to that number.
AggregateCorrect ==
    (mret.op = "calculate_overall_metrics") =>
       /\ ~mret.raised
       /\ \A strategy \in Strategies :
             results[strategy].has =>
                LET w == WellFormedScores(results[strategy].list,
                                          Len(results[strategy].list))
                    m == mret.overall_metrics[strategy]
                IN /\ m.has
                   /\ m.accuracy.count = w[2]
                   /\ w[2] > 0 => m.accuracy.average_score = w

\* C14: evaluate_answer never raises because of what the judge returns: it
\* appends exactly one record whose accuracy has a score, and an output that
\* is not in the score/explanation format yields score 0 with a diagnostic
\* explanation.
JudgeNeverRaises ==
    (jret.op = "evaluate_answer") =>
       LET evals == results[jret.strategy].list IN
       /\ ~jret.raised
       /\ Len(evals) = jret.len + 1
       /\ "score" \in DOMAIN evals[Len(evals)]
       /\ jret.accuracy.kind \in {"object_no_score", "not_object", "text", "call_failed"} =>
             /\ evals[Len(evals)].score = 0
             /\ jret.result.diagnostic

\* C15: every record held by the aggregator has an accuracy score that is 0
\* or 1, and a reasoning_quality score, when present, from 1 to 10.
BinaryAccuracy ==
    \A strategy \in Strategies :
       \A n \in DOMAIN results[strategy].list :
          LET e == results[strategy].list[n] IN
          /\ e.score \in {0, 1}
          /\ "reasoning_score" \in DOMAIN e => e.reasoning_score \in 1..10

\* C16: with num_threads <= 1 the tasks run in question-major order, the
\* strategies of one question in the order of the strategy mapping: a task
\* has started only when every task before it in that order has finished,
\* succeeded or failed, and at most one task is under way.
QuestionMajorOrder ==
    (numThreads <= 1) =>
       /\ \A i, j \in Tasks :
             (i < j /\ task[j].pc # "pending") => task[i].pc \in {"finished", "reported"}
       /\ Cardinality(Running) <= 1

\* In the loop, the first task failed and a task of the second question has
\* finished successfully.
QuestionMajorOrderWitness ==
    /\ numThreads <= 1
    /\ 1 \in apiFail
    /\ task[1].pc = "reported"
    /\ ~task[1].success
    /\ \E j \in Tasks :
          /\ TaskList[j].question_id # TaskList[1].question_id
          /\ task[j].pc = "finished"
          /\ task[j].success

\* C17: in the worker pool (num_threads > 1), when every model and judge call
\* returns or fails, every task eventually finishes and is reported, as
\* completed or as failed, and stays reported; run_evaluation then returns.
PoolCompletes ==
    (numThreads > 1) =>
       <>[](runPc = "returned" /\ \A i \in Tasks : task[i].pc = "reported")

\* A pool run that has returned with a failed task and a successful one.
PoolCompletesWitness ==
    /\ numThreads > 1
    /\ runPc = "returned"
    /\ \E i \in Tasks : task[i].pc = "reported" /\ ~task[i].success
    /\ \E i \in Tasks : task[i].pc = "reported" /\ task[i].success

\* C18: the tasks run_evaluation goes through are exactly P x S, each pair
\* once, where S is the known strategies named by strategy_filter (all when
\* there is no filter) and P is the first min(m, n) of the n questions that
\* pass question_filter, for every max_questions m >= 0 given (all n when
\* max_questions is not given).
TaskUniverseExact ==
    (plan.op = "run_evaluation") =>
       LET S == IF plan.strategy_filter.given
                THEN Strategies \cap plan.strategy_filter.names
                ELSE Strategies
           Pass(q) == ~plan.question_filter.given \/ q \in plan.question_filter.names
           passed == SelectSeq(QuestionIds, Pass)
           P == IF plan.max_questions.given
                THEN {passed[i] : i \in 1..Min(plan.max_questions.m, Len(passed))}
                ELSE Range(passed)
       IN /\ Range(plan.tasks) = [question_id : P, strategy_name : S]
          /\ Len(plan.tasks) = Cardinality(P) * Cardinality(S)

\* C19: in a run with log_only=true no judge call is made, no record is added
\* to the aggregator and backup_all_results writes nothing; every task whose
\* model call succeeded has its conversation logged and is successful.
LogOnlySkipsEvaluation ==
    logOnly =>
       /\ judged = {}
       /\ results = NoResults
       /\ evalRows = <<>>
       /\ \A session_id \in Sessions : ~sessionRows[session_id].has
       /\ bret.op = "none"
       /\ \A i \in Tasks :
             (task[i].pc \in {"finished", "reported"} /\ i \notin apiFail) =>
                i \in logged /\ task[i].success

\* A log_only run that has returned with a successful task and a failed one.
LogOnlySkipsEvaluationWitness ==
    /\ logOnly
    /\ runPc = "returned"
    /\ \E i \in Tasks : i \notin apiFail /\ i \in logged /\ task[i].success
    /\ \E i \in Tasks : i \in apiFail /\ ~task[i].success

\* C20: after backup_all_results, called with the aggregator's results, the
\* store holds one overall-metric row for (session_id, strategy) for every
\* strategy in the results, and a session row whose total_questions is the
\* number of records upserted.
BackupWritesMetricsAndSession ==
    (bret.op = "backup_all_results") =>
       /\ \A strategy \in Strategies :
             results[strategy].has =>
                [session_id |-> bret.session_id, strategy |-> strategy] \in metricRows
       /\ sessionRows[bret.session_id].has
       /\ sessionRows[bret.session_id].total_questions =
             RecordCount(results, Len(StrategyOrder))

\* C21: after the backup at the end of a run whose logger was created with
\* result_prefix p, the session row of the run's session id still has
\* result_prefix p and the start_time recorded when the logger was created,
\* and has end_time and total_questions set.
SessionRowFinalized ==
    (convLogger.has /\ bret.op = "backup_all_results") =>
       LET row == sessionRows[convLogger.session_id]
       IN /\ row.has
          /\ row.result_prefix = convLogger.result_prefix
          /\ row.start_time = TimeAtLoggerInit
          /\ row.end_time # NoneValue
          /\ row.total_questions = RecordCount(results, Len(StrategyOrder))

\* C22: a persistence call (save_results, add_question,
\* backup_evaluation_result, backup_overall_metrics, backup_session) whose
\* write failed raises to its caller; it never returns normally.
WriteFailureRaised ==
    pret.failed => pret.raised

\* C23: when get_embedding raises inside add_question or search, the call
\* raises to its caller and does not return an ordinary value.
EmbeddingFailurePropagates ==
    eret.embed_failed => eret.raised

BackupRoundTrip ==
    (convLogger.has /\ bret.op = "backup_all_results") =>
       LET got == GetSessionResults(evalRows, sessionRows, convLogger.session_id)
       IN \A strategy \in Strategies :
             results[strategy].has =>
                LET recs == results[strategy].list
                    back == got[strategy].list
                IN /\ Len(back) = Len(recs)
                   /\ \A n \in DOMAIN recs :
                         /\ back[n].id = recs[n].question_id
                         /\ back[n].score = recs[n].score

\* C26: after a run in session s with the logger and the backup attached,
\* the evaluation table holds, for session s, exactly one row per evaluated
\* (question, strategy) pair and no other row, and the row's accuracy score
\* is the accuracy score of the aggregator's record for the pair.
OneRowPerEvaluatedPair ==
    (convLogger.has /\ runPc = "returned") =>
       LET s == convLogger.session_id
           evaluated == {i \in Tasks : task[i].success}
           Mine(i) == {m \in DOMAIN evalRows :
                          RowKey(evalRows[m]) =
                             <<TaskList[i].question_id, TaskList[i].strategy_name, s>>}
       IN /\ \A i \in evaluated : Cardinality(Mine(i)) = 1
          /\ \A m \in DOMAIN evalRows :
                evalRows[m].session_id = s => \E i \in evaluated : m \in Mine(i)
          /\ \A i \in evaluated : \A m \in Mine(i) :
                \A n \in DOMAIN results[TaskList[i].strategy_name].list :
                   LET rec == results[TaskList[i].strategy_name].list[n]
                   IN rec.question_id = TaskList[i].question_id =>
                         evalRows[m].accuracy_score = rec.score

\* C27: VectorStore.search(query_vector, k) on a store of n vectors with
\* k > n returns exactly the n stored records, each once, each with its own
\* distance to the query; on an empty store it returns an empty list.
StoreSearchClampsK ==
    (vsret.op = "search") =>
       LET n == Len(vstore.metadata)
           res == vsret.res
       IN /\ n = 0 => res = <<>>
          /\ vsret.k > n =>
                /\ Len(res) = n
                /\ \A p \in 1..n :
                      \E i \in DOMAIN res :
                         /\ res[i].id = vstore.metadata[p].id
                         /\ res[i].distance = L2(vstore.index[p], vsret.qv)

\* C28: an add_question call that raises, because embedding failed or because
\* persisting failed, leaves the in-memory index and metadata list as they
\* were before the call.
FailedAddLeavesMemory ==
    [][(vret'.op = "add" /\ vret'.raised) => (index' = index /\ metadata' = metadata)]_vars

\* C29: in worker-pool mode the similar_questions metadata process_response
\* attaches to a task's response is the list retrieved by that same task's
\* generate_prompt call.
OwnSimilarQuestions ==
    \A t \in Threads :
       fsThr[t].pc = "done" => fsThr[t].attached = SimilarList(fsThr[t].examples)

OrdinalStability ==
    allOk =>
       /\ \A i \in 1..Len(addLog) : addLog[i].ret = i - 1
       /\ (vret.op = "search" /\ ~vret.raised) =>
             \A j \in 1..Len(vret.res) :
                \E i \in 1..Len(addLog) :
                   /\ addLog[i].ret = vret.res[j].id
                   /\ vret.res[j].question = addLog[i].text
                   /\ PyItem(metadata, vret.res[j].id).question = addLog[i].text
                   /\ vret.res[j].distance = L2(Embed(addLog[i].text), Embed(vret.q))

OrdinalStabilityWitness ==
    /\ allOk
    /\ Len(addLog) = MaxRecords
    /\ vret.op = "search"
    /\ Len(vret.res) = MaxRecords
    /\ vret.res[1].id # 0

\* C8: in every state of a VectorDatabase used by one thread the index holds
\* as many vectors as there are metadata records, and the record at position
\* p carries id p.
IndexMatchesMetadata ==
    /\ Len(index) = Len(metadata)
    /\ \A p \in 1..Len(metadata) : metadata[p].id = p - 1

\* C9: once all concurrent add_question calls have returned, they returned
\* distinct ids and the metadata record at position p describes the vector
\* at index position p.
ConcurrentAddsAtomic ==
    (\A t \in Threads : addThr[t].pc = "returned") =>
       /\ \A t, u \in Threads : t # u => addThr[t].question_id # addThr[u].question_id
       /\ Len(index) = Len(metadata)
       /\ \A p \in 1..Len(metadata) : index[p] = Embed(metadata[p].question)

\* C10: a search whose query was embedded returns exactly min(k, n) results
\* for n stored records, in ascending distance order, no record twice.
SearchClampsK ==
    (vret.op = "search" /\ ~vret.raised) =>
       /\ Len(vret.res) = Min(vret.k, Len(metadata))
       /\ \A i, j \in 1..Len(vret.res) :
             i < j => /\ vret.res[i].distance <= vret.res[j].distance
                      /\ vret.res[i].id # vret.res[j].id

====
